---- MODULE Spec2Model ----
(***************************************************************************)
(* Job coordination and media composition of the prompt-to-video pipeline. *)
(*                                                                         *)
(* One job (one job_id) is followed through the three stage handlers:      *)
(*   media generation  src/src/request_media_generation/                   *)
(*   composition       src/src/compose_media/compose_media.py              *)
(*   upload            src/src/upload_youtube/upload-youtube.py            *)
(* The shared state is the job's item in the coordination table, the       *)
(* objects of the bucket and the asynchronous invocations in flight.       *)
(*                                                                         *)
(* Handlers are entry points: besides the invocations the pipeline issues  *)
(* itself, any of them may be invoked from outside (a redelivery by the    *)
(* invocation transport, an operator, a test) in any state of the job.     *)
(*                                                                         *)
(* Calls to the table, the bucket and the invocation transport succeed,    *)
(* except for the failures listed with the action that draws them: the     *)
(* read of check_both_ready, the status update of complete_job, the        *)
(* inference call and the download of a fragment, the encoder's exit       *)
(* status and the upload to the video host.  A setting the code tests      *)
(* before use (the table name, the bucket name, a function name, a         *)
(* credential) may be absent.  A listing of the bucket answers its keys in *)
(* any order, and an event need not be a JSON object.                      *)
(*                                                                         *)
(* Six specifications share the variables: Spec follows the job through    *)
(* the pipeline, MediaSpec the media stage in detail, BatchSpec the media  *)
(* handler over a batch of records, ComposeSpec one composition over any   *)
(* bucket of fragments, PublishSpec the metadata of one upload, UploadSpec *)
(* the upload loop of one invocation.                                      *)
(***************************************************************************)
EXTENDS Integers, Sequences, FiniteSets, TLC

\* Largest number of scenes of the job's script.
MaxScenes == 2
\* Largest number of handler invocations (composition and upload) in a run.
MaxInvocations == 2
\* The clock runs from 0 to MaxTime.
MaxTime == 1
\* Largest scene number of the fragments a bucket holds when a composition
\* is followed on its own.
MaxFragments == 3

\* Records in one event of the media handler.
MaxRecords == 2

VARIABLES
    job,          \* the media request: video_type, scenes, master prompt
    MEDIA_TABLE,  \* JOB_COORDINATION_TABLE is set for the media function
    UPLOAD_TABLE, \* JOB_COORDINATION_TABLE is set for the upload function
    item,         \* the job's item in the coordination table
    s3,           \* the keys of the bucket's objects
    now,          \* int(time.time())
    media,        \* process_media_request: its position and its results
    invs,         \* the handler invocations, in order of arrival
    inflight,     \* asynchronous invocations issued and not yet delivered
    invokeLog,    \* every lambda_client.invoke call, in order
    youtube       \* number of videos inserted at the video host

vars == <<job, MEDIA_TABLE, UPLOAD_TABLE, item, s3, now, media, invs,
          inflight, invokeLog, youtube>>

VideoTypes == {"regular", "short"}

----------------------------------------------------------------------------
\* The coordination table: one item, attributes absent until first written.

\* No item under the job's key; get_item answers without "Item".
NoItem ==
    [exists |-> FALSE, video_type |-> "", video_audio_status |-> "",
     composition_status |-> "", upload_status |-> "", final_video_url |-> "",
     youtube_video_id |-> 0, youtube_url |-> "", expires_at |-> 0]

\* A key of the bucket: folder/job_id/file, the file as stem, number, extension.
S3Key(folder, stem, number, ext) ==
    [folder |-> folder, stem |-> stem, number |-> number, ext |-> ext]

SceneVideoKey(n) == S3Key("generated-videos", "scene", n, "mp4")
SceneAudioKey(n) == S3Key("generated-audio", "scene", n, "wav")
ResultsKey == S3Key("combined-generations", "results", 0, "json")

\* The ascending sequence of a finite set of integers.
RECURSIVE SortedSeq(_)
SortedSeq(S) ==
    IF S = {} THEN <<>>
    ELSE LET m == CHOOSE x \in S : \A y \in S : x <= y
         IN  <<m>> \o SortedSeq(S \ {m})

----------------------------------------------------------------------------
\* compose_media.py

check_both_ready_missing(read_ok, it) ==
    IF ~read_ok THEN FALSE
    ELSE ~it.exists \/ it.video_audio_status = "complete"

check_both_ready_mut(read_ok, it) ==
    IF ~read_ok THEN FALSE
    ELSE IF ~it.exists THEN FALSE
    ELSE it.video_audio_status # "failed"

\* TRUE iff the item was read and its video_audio_status is "complete";
\* a failed read and a missing item both answer FALSE.
check_both_ready(read_ok, it) ==
    IF ~read_ok THEN FALSE
    ELSE IF ~it.exists THEN FALSE
    ELSE it.video_audio_status = "complete"

update_job_coordination_status_put(it, field, value, t) ==
    [NoItem EXCEPT ![field] = value,
                   !.expires_at = t + (7 * 24 * 60 * 60),
                   !.exists = TRUE]

\* SET field = value, expires_at = now + 7 days; update_item creates the
\* item when there is none.
update_job_coordination_status(it, field, value, t) ==
    [it EXCEPT ![field] = value,
               !.expires_at = t + (7 * 24 * 60 * 60),
               !.exists = TRUE]

\* The scene number of a file name: the digits after "scene_", 0 for a
\* name without them (None).  Stem "scene" is the file scene_<number>.<ext>
\* the media stage writes, stem "scene_tts" the file
\* scene_<number>_<name>.<ext> request_audio_generation.py writes.
extract_scene_number(key) ==
    IF key.stem \in {"scene", "scene_tts"} THEN key.number ELSE 0

\* /tmp/<file name>
LocalPath(key) == [file |-> key.stem, idx |-> key.number, ext |-> key.ext]

\* The orders in which list_objects_v2 may answer the keys under
\* folder/job_id/: the listing is unordered.
Listings(bucket, folder) ==
    LET contents == {k \in bucket : k.folder = folder}
        n == Cardinality(contents)
    IN  {f \in [1..n -> contents] : \A i, j \in 1..n : f[i] = f[j] => i = j}

\* The files downloaded from a listing, in its order: every key whose file
\* name carries a scene number.
RECURSIVE download_media_files(_)
download_media_files(contents) ==
    IF contents = <<>> THEN <<>>
    ELSE (IF extract_scene_number(contents[1]) = 0 THEN <<>>
          ELSE <<[scene_number |-> extract_scene_number(contents[1]),
                  local_path |-> LocalPath(contents[1]),
                  s3_key |-> contents[1]]>>)
         \o download_media_files(Tail(contents))

\* files.sort(key=lambda x: x["scene_number"]): a stable sort, files of
\* equal scene number keep the order they had.
RECURSIVE SortByScene(_)
SortByScene(files) ==
    IF files = <<>> THEN <<>>
    ELSE LET last == files[Len(files)]
             front == SortByScene(SubSeq(files, 1, Len(files) - 1))
             NotAfter(f) == f.scene_number <= last.scene_number
             After(f) == f.scene_number > last.scene_number
         IN  SelectSeq(front, NotAfter) \o <<last>> \o SelectSeq(front, After)

FinalVideoKey == S3Key("final-videos", "final_video", 0, "mp4")

\* Temp-disk names of one invocation.
ComposedScene(i) == [file |-> "composed_scene", idx |-> i, ext |-> "mp4"]
ConcatList == [file |-> "concat_list", idx |-> 0, ext |-> "txt"]
FinalVideo == [file |-> "final_video", idx |-> 0, ext |-> "mp4"]

\* The state of one run of process_scenes_sequentially: ok until an error
\* is raised; fault records that an encoder run exited non-zero or left no
\* output file; pairs lists the encoder's mux runs (audio key, video key,
\* output path); final lists the pairs whose clips make up the final video.
Proc(ok, err, tmp, muxes, concats, manifest) ==
    [ok |-> ok, err |-> err, tmp |-> tmp, muxes |-> muxes,
     concats |-> concats, manifest |-> manifest, fault |-> FALSE,
     pairs |-> <<>>, final |-> <<>>]

Pair(audio_file, video_file, out) ==
    [audio |-> audio_file.s3_key, video |-> video_file.s3_key, out |-> out]

compose_single_scene_to_path_mut(p, audio_file, video_file, out, mux_ok) ==
    IF ~p.ok THEN p
    ELSE LET run == [p EXCEPT !.muxes = @ + 1,
                              !.pairs = Append(@, Pair(audio_file,
                                                       video_file, out))]
         IN  IF mux_ok
             THEN [run EXCEPT !.tmp = @ \cup {out},
                              !.final = IF out = FinalVideo
                                        THEN <<Pair(audio_file, video_file,
                                                    out)>>
                                        ELSE @]
             ELSE [run EXCEPT !.fault = TRUE]

\* One mux: mux_ok says the encoder exited 0 and left its output file.
compose_single_scene_to_path(p, audio_file, video_file, out, mux_ok) ==
    IF ~p.ok THEN p
    ELSE LET run == [p EXCEPT !.muxes = @ + 1,
                              !.pairs = Append(@, Pair(audio_file,
                                                       video_file, out))]
         IN  IF mux_ok
             THEN [run EXCEPT !.tmp = @ \cup {out},
                              !.final = IF out = FinalVideo
                                        THEN <<Pair(audio_file, video_file,
                                                    out)>>
                                        ELSE @]
             ELSE [run EXCEPT !.ok = FALSE, !.fault = TRUE,
                              !.err = "FFmpeg failed"]

cleanup_temp_files(p, files) ==
    IF ~p.ok THEN p ELSE [p EXCEPT !.tmp = @ \ files]

\* The clips the concatenation reads: those of the manifest, in order, up
\* to the first one that is no longer on disk.
RECURSIVE ClipsRead(_, _)
ClipsRead(manifest, tmp) ==
    IF manifest = <<>> THEN <<>>
    ELSE IF manifest[1] \notin tmp THEN <<>>
    ELSE <<manifest[1]>> \o ClipsRead(Tail(manifest), tmp)

\* The concatenation: concat_ok says the encoder exited 0 and left its
\* output file.  The encoder cannot start without the manifest's first
\* clip; a later clip it cannot open ends its input there, and its exit
\* status is either one.
concatenate_from_file(p, out, concat_ok) ==
    IF ~p.ok THEN p
    ELSE LET read == ClipsRead(p.manifest, p.tmp)
             PairOf(clip) ==
                 p.pairs[CHOOSE i \in 1..Len(p.pairs) : p.pairs[i].out = clip]
         IN  IF concat_ok /\ read # <<>>
             THEN [p EXCEPT !.concats = @ + 1, !.tmp = @ \cup {out},
                            !.final = [i \in 1..Len(read) |-> PairOf(read[i])]]
             ELSE [p EXCEPT !.concats = @ + 1, !.ok = FALSE, !.fault = TRUE,
                            !.err = "FFmpeg concat failed"]

AppendManifest(p, f) ==
    IF ~p.ok THEN p
    ELSE [p EXCEPT !.manifest = Append(@, f), !.tmp = @ \cup {ConcatList}]

\* Scenes i..n-1 of the loop "for i in range(1, len(audio_files))"; scene
\* fail_at (counted from 1) is the one whose mux fails, 0 for none.
RECURSIVE SceneLoop(_, _, _, _, _)
SceneLoop(p, audio_files, video_files, i, fail_at) ==
    IF i >= Len(audio_files) THEN p
    ELSE LET muxed == compose_single_scene_to_path(
                          p, audio_files[i + 1], video_files[i + 1],
                          ComposedScene(i), fail_at # i + 1)
             listed == AppendManifest(muxed, ComposedScene(i))
             freed == IF i > 1
                      THEN cleanup_temp_files(listed, {ComposedScene(i - 1)})
                      ELSE listed
         IN  SceneLoop(freed, audio_files, video_files, i + 1, fail_at)

process_scenes_sequentially_mut(audio_files, video_files, tmp, fail_at, concat_ok) ==
    LET p0 == Proc(TRUE, "", tmp, 0, 0, <<>>)
        n == IF Len(audio_files) < Len(video_files) THEN Len(audio_files)
             ELSE Len(video_files)
        audio == SubSeq(audio_files, 1, n)
        video == SubSeq(video_files, 1, n)
    IN  IF n = 0
        THEN [p0 EXCEPT !.ok = FALSE, !.err = "No scenes"]
        ELSE IF n = 1
        THEN compose_single_scene_to_path(p0, audio[1], video[1], FinalVideo,
                                          fail_at # 1)
        ELSE LET first == AppendManifest(
                            compose_single_scene_to_path(
                                p0, audio[1], video[1], ComposedScene(0),
                                fail_at # 1),
                            ComposedScene(0))
                 looped == SceneLoop(first, audio, video, 1, fail_at)
                 joined == concatenate_from_file(looped, FinalVideo, concat_ok)
             IN  cleanup_temp_files(
                    joined,
                    {ComposedScene(i) : i \in 0..(n - 1)} \cup {ConcatList})

process_scenes_sequentially_nosingle(audio_files, video_files, tmp, fail_at, concat_ok) ==
    LET p0 == Proc(TRUE, "", tmp, 0, 0, <<>>)
        n == Len(audio_files)
    IN  IF Len(audio_files) # Len(video_files)
        THEN [p0 EXCEPT !.ok = FALSE, !.err = "Mismatch"]
        ELSE IF n = 0
        THEN [p0 EXCEPT !.ok = FALSE, !.err = "No scenes"]
        ELSE LET first == AppendManifest(
                            compose_single_scene_to_path(
                                p0, audio_files[1], video_files[1],
                                ComposedScene(0), fail_at # 1),
                            ComposedScene(0))
                 looped == SceneLoop(first, audio_files, video_files, 1,
                                     fail_at)
                 joined == concatenate_from_file(looped, FinalVideo, concat_ok)
             IN  cleanup_temp_files(
                    joined,
                    {ComposedScene(i) : i \in 0..(n - 1)} \cup {ConcatList})

\* audio_files and video_files are the downloaded files, sorted; tmp holds
\* their local paths.  Scene i of the run is the pair of the files at
\* position i of the two lists.
process_scenes_sequentially(audio_files, video_files, tmp, fail_at, concat_ok) ==
    LET p0 == Proc(TRUE, "", tmp, 0, 0, <<>>)
        n == Len(audio_files)
    IN  IF Len(audio_files) # Len(video_files)
        THEN [p0 EXCEPT !.ok = FALSE, !.err = "Mismatch"]
        ELSE IF n = 0
        THEN [p0 EXCEPT !.ok = FALSE, !.err = "No scenes"]
        ELSE IF n = 1
        THEN compose_single_scene_to_path(p0, audio_files[1], video_files[1],
                                          FinalVideo, fail_at # 1)
        ELSE LET first == AppendManifest(
                            compose_single_scene_to_path(
                                p0, audio_files[1], video_files[1],
                                ComposedScene(0), fail_at # 1),
                            ComposedScene(0))
                 looped == SceneLoop(first, audio_files, video_files, 1,
                                     fail_at)
                 joined == concatenate_from_file(looped, FinalVideo, concat_ok)
             IN  cleanup_temp_files(
                    joined,
                    {ComposedScene(i) : i \in 0..(n - 1)} \cup {ConcatList})

compose_media_unsorted(audio_contents, video_contents, fail_at, concat_ok) ==
    LET audio_files == download_media_files(audio_contents)
        video_files == download_media_files(video_contents)
        tmp == {audio_files[i].local_path : i \in 1..Len(audio_files)}
               \cup
               {video_files[i].local_path : i \in 1..Len(video_files)}
        p0 == Proc(TRUE, "", tmp, 0, 0, <<>>)
        p == IF audio_files = <<>> \/ video_files = <<>>
             THEN [p0 EXCEPT !.ok = FALSE, !.err = "Missing"]
             ELSE process_scenes_sequentially(audio_files, video_files,
                                              tmp, fail_at, concat_ok)
    IN  [ok |-> p.ok, err |-> p.err, naudio |-> Len(audio_files),
         nvideo |-> Len(video_files), muxes |-> p.muxes,
         concats |-> p.concats, manifest |-> p.manifest, fault |-> p.fault,
         pairs |-> p.pairs, final |-> p.final,
         tmp |-> IF p.ok THEN (p.tmp \ {FinalVideo}) \ tmp ELSE p.tmp]

\* The run of compose_media up to upload_final_video: download both
\* folders (audio_contents and video_contents are their listings), sort,
\* process.  On success the final video is uploaded and the temp files are
\* removed; on an error they stay.
compose_media(audio_contents, video_contents, fail_at, concat_ok) ==
    LET audio_files == download_media_files(audio_contents)
        video_files == download_media_files(video_contents)
        tmp == {audio_files[i].local_path : i \in 1..Len(audio_files)}
               \cup
               {video_files[i].local_path : i \in 1..Len(video_files)}
        p0 == Proc(TRUE, "", tmp, 0, 0, <<>>)
        p == IF audio_files = <<>> \/ video_files = <<>>
             THEN [p0 EXCEPT !.ok = FALSE, !.err = "Missing"]
             ELSE process_scenes_sequentially(SortByScene(audio_files),
                                              SortByScene(video_files),
                                              tmp, fail_at, concat_ok)
    IN  [ok |-> p.ok, err |-> p.err, naudio |-> Len(audio_files),
         nvideo |-> Len(video_files), muxes |-> p.muxes,
         concats |-> p.concats, manifest |-> p.manifest, fault |-> p.fault,
         pairs |-> p.pairs, final |-> p.final,
         tmp |-> IF p.ok THEN (p.tmp \ {FinalVideo}) \ tmp ELSE p.tmp]

----------------------------------------------------------------------------
\* upload-youtube.py

\* The job's details, or "none": the table name is not set or there is no
\* item under the key.
get_job_details(table_set, it) ==
    IF ~table_set THEN "none"
    ELSE IF ~it.exists THEN "none"
    ELSE "found"

\* The keys get_composed_video_s3_key may answer (the listing is
\* unordered); the empty set stands for None.
get_composed_video_s3_key(bucket, video_type) ==
    LET prefix == IF video_type = "short" THEN "generated-videos"
                  ELSE "composed-videos"
        contents == {k \in bucket : k.folder = prefix}
        mp4 == {k \in contents : k.ext = "mp4"}
        main == IF video_type = "short"
                THEN {k \in mp4 : k.stem = "scene" /\ k.number = 1}
                ELSE mp4
    IN  IF main # {} THEN main ELSE mp4

\* SET upload_status = status (and the video's id and url when given),
\* expires_at = now + 30 days; nothing when the table name is not set.
update_job_upload_status(table_set, it, status, video_id, t) ==
    IF ~table_set THEN it
    ELSE [it EXCEPT !.upload_status = status,
                    !.youtube_video_id = IF video_id # 0 THEN video_id ELSE @,
                    !.youtube_url = IF video_id # 0 THEN "watch" ELSE @,
                    !.expires_at = t + (30 * 24 * 60 * 60),
                    !.exists = TRUE]

----------------------------------------------------------------------------
\* request_media_generation.py

\* put_item: the whole item is replaced.
initialize_job(table_set, it, video_type, t) ==
    IF ~table_set THEN it
    ELSE [NoItem EXCEPT !.exists = TRUE,
                        !.video_type = video_type,
                        !.video_audio_status = "pending",
                        !.composition_status = "pending",
                        !.expires_at = t + (7 * 24 * 60 * 60)]

complete_job_norefresh(it, t) ==
    [it EXCEPT !.video_audio_status = "complete",
               !.exists = TRUE]

complete_job_pending(it, t) ==
    [it EXCEPT !.expires_at = t + (7 * 24 * 60 * 60),
               !.exists = TRUE]

\* The update of complete_job.
complete_job(it, t) ==
    [it EXCEPT !.video_audio_status = "complete",
               !.expires_at = t + (7 * 24 * 60 * 60),
               !.exists = TRUE]

Event(target, video_type) == [target |-> target, video_type |-> video_type]

trigger_next_step_mut(video_type, upload_fn, compose_fn) ==
    IF video_type = "short"
    THEN (IF upload_fn THEN <<Event("upload", "short")>> ELSE <<>>)
         \o (IF compose_fn THEN <<Event("compose", "")>> ELSE <<>>)
    ELSE IF compose_fn THEN <<Event("compose", "")>> ELSE <<>>

\* The invocations trigger_next_step issues; upload_fn and compose_fn say
\* whether YOUTUBE_UPLOAD_FUNCTION_NAME and COMPOSE_FUNCTION_NAME are set.
trigger_next_step(video_type, upload_fn, compose_fn) ==
    IF video_type = "short"
    THEN IF upload_fn THEN <<Event("upload", "short")>> ELSE <<>>
    ELSE IF compose_fn THEN <<Event("compose", "")>> ELSE <<>>

----------------------------------------------------------------------------
\* The job and the initial state

\* The scenes extract_scenes returned for the scripts considered: scene i
\* carries scene_number i.  A scene's voiceover text is drawn where
\* generate_audio reads it.
Scripts ==
    {[i \in 1..n |-> [scene_number |-> i]] : n \in 1..MaxScenes}

Init ==
    /\ job \in [video_type : VideoTypes, scenes : Scripts,
                has_master : BOOLEAN]
    /\ MEDIA_TABLE \in BOOLEAN
    /\ UPLOAD_TABLE \in BOOLEAN
    /\ item = NoItem
    /\ s3 = {}
    /\ now = 0
    /\ media = [pc |-> "start",
                video |-> [i \in 1..Len(job.scenes) |-> "pending"],
                audio |-> IF job.video_type = "short" THEN <<>>
                          ELSE [i \in 1..Len(job.scenes) |-> "pending"],
                fn_set |-> FALSE,
                updated |-> FALSE]
    /\ invs = <<>>
    /\ inflight = {}
    /\ invokeLog = <<>>
    /\ youtube = 0

Tick ==
    /\ now < MaxTime
    /\ now' = now + 1
    /\ UNCHANGED <<job, MEDIA_TABLE, UPLOAD_TABLE, item, s3, media, invs,
                   inflight, invokeLog, youtube>>

----------------------------------------------------------------------------
\* process_media_request, after the message was validated and its scenes
\* extracted

\* initialize_job, then the master prompt context is looked up: a script
\* without it raises; the handler counts the queue record as failed and
\* writes nothing to the item.
InitializeJob ==
    /\ media.pc = "start"
    /\ item' = initialize_job(MEDIA_TABLE, item, job.video_type, now)
    /\ media' = [media EXCEPT
                   !.pc = IF job.has_master THEN "generate" ELSE "error"]
    /\ UNCHANGED <<job, MEDIA_TABLE, UPLOAD_TABLE, s3, now, invs, inflight,
                   invokeLog, youtube>>

\* One video task ends: with its fragment stored, or failed.
GenerateVideo(i) ==
    /\ media.pc = "generate"
    /\ media.video[i] = "pending"
    /\ \E stored \in BOOLEAN :
         /\ media' = [media EXCEPT
                        !.video[i] = IF stored THEN "success" ELSE "failed"]
         /\ s3' = IF stored
                  THEN s3 \cup {SceneVideoKey(job.scenes[i].scene_number)}
                  ELSE s3
    /\ UNCHANGED <<job, MEDIA_TABLE, UPLOAD_TABLE, item, now, invs, inflight,
                   invokeLog, youtube>>

\* One audio task ends (regular videos only): skipped for an empty
\* voiceover, else with its fragment stored, or failed.
GenerateAudio(i) ==
    /\ media.pc = "generate"
    /\ job.video_type # "short"
    /\ media.audio[i] = "pending"
    /\ \E voiceover \in BOOLEAN, stored \in BOOLEAN :
         /\ media' = [media EXCEPT
                        !.audio[i] = IF ~voiceover THEN "skipped"
                                     ELSE IF stored THEN "success"
                                     ELSE "failed"]
         /\ s3' = IF voiceover /\ stored
                  THEN s3 \cup {SceneAudioKey(job.scenes[i].scene_number)}
                  ELSE s3
    /\ UNCHANGED <<job, MEDIA_TABLE, UPLOAD_TABLE, item, now, invs, inflight,
                   invokeLog, youtube>>

\* generate_media returned (every task ended); store_results writes the
\* two result lists to results.json, and they are not read again.
StoreResults ==
    /\ media.pc = "generate"
    /\ \A i \in DOMAIN media.video : media.video[i] # "pending"
    /\ \A i \in DOMAIN media.audio : media.audio[i] # "pending"
    /\ s3' = s3 \cup {ResultsKey}
    /\ media' = [media EXCEPT !.pc = "complete", !.video = <<>>,
                              !.audio = <<>>]
    /\ UNCHANGED <<job, MEDIA_TABLE, UPLOAD_TABLE, item, now, invs, inflight,
                   invokeLog, youtube>>

complete_job_triggers_always(table_set, updated) == TRUE

\* complete_job reaches its call of trigger_next_step: not when it returned
\* for want of the table name, and not when update_item raised, which
\* takes it to its except branch.
complete_job_triggers(table_set, updated) == table_set /\ updated

\* complete_job: nothing without the table name, else the status update,
\* which succeeds (updated) or raises.
CompleteJob ==
    /\ media.pc = "complete"
    /\ \E updated \in BOOLEAN :
         /\ media' = [media EXCEPT
               !.pc = IF complete_job_triggers(MEDIA_TABLE, updated)
                      THEN "trigger" ELSE "done",
               !.updated = MEDIA_TABLE /\ updated]
         /\ item' = IF MEDIA_TABLE /\ updated THEN complete_job(item, now)
                    ELSE item
    /\ UNCHANGED <<job, MEDIA_TABLE, UPLOAD_TABLE, s3, now, invs, inflight,
                   invokeLog, youtube>>

\* trigger_next_step, called by complete_job after the update.
TriggerNextStep ==
    /\ media.pc = "trigger"
    /\ \E upload_fn \in BOOLEAN, compose_fn \in BOOLEAN :
         LET events == trigger_next_step(job.video_type, upload_fn,
                                         compose_fn)
         IN  /\ invokeLog' = invokeLog \o events
             /\ inflight' = inflight \cup
                            {events[i] : i \in 1..Len(events)}
             /\ media' = [media EXCEPT
                    !.pc = "done",
                    !.fn_set = IF job.video_type = "short" THEN upload_fn
                               ELSE compose_fn]
    /\ UNCHANGED <<job, MEDIA_TABLE, UPLOAD_TABLE, item, s3, now, invs,
                   youtube>>

----------------------------------------------------------------------------
\* Invocations of the composition and upload handlers

\* No key: get_composed_video_s3_key has not answered one.
NoKey == S3Key("", "", 0, "")

\* A handler invocation at its entry.  seen is what check_both_ready read;
\* arrived is the item's upload_status when the event arrived; writes lists
\* the attributes of the item this invocation set, in order.
NewInvocation(fn, video_type, it) ==
    [fn |-> fn, video_type |-> video_type, pc |-> "start",
     arrived |-> it.upload_status, seen |-> "", statusCode |-> 0,
     body |-> "", err |-> "", naudio |-> 0, nvideo |-> 0, muxes |-> 0,
     concats |-> 0, manifest |-> <<>>, tmp |-> {}, fault |-> FALSE,
     pairs |-> <<>>, final |-> <<>>, video_s3_key |-> NoKey,
     uploads |-> 0, writes |-> <<>>]

\* An invocation the pipeline issued is delivered.
Deliver(e) ==
    /\ e \in inflight
    /\ Len(invs) < MaxInvocations
    /\ inflight' = inflight \ {e}
    /\ invs' = Append(invs, NewInvocation(e.target, e.video_type, item))
    /\ UNCHANGED <<job, MEDIA_TABLE, UPLOAD_TABLE, item, s3, now, media,
                   invokeLog, youtube>>

\* A handler is invoked from outside the pipeline, or an event is
\* delivered again.
ExternalInvoke(fn, video_type) ==
    /\ Len(invs) < MaxInvocations
    /\ invs' = Append(invs, NewInvocation(fn, video_type, item))
    /\ UNCHANGED <<job, MEDIA_TABLE, UPLOAD_TABLE, item, s3, now, media,
                   inflight, invokeLog, youtube>>

\* A handler is invoked with an event that is not a JSON object, and its
\* first event.get raises.  The except branch of compose_media.py finds no
\* job_id among the locals and answers 500; the except branch of
\* upload-youtube.py calls event.get again, and that exception leaves
\* lambda_handler.
InvokeMalformed(fn) ==
    /\ Len(invs) < MaxInvocations
    /\ invs' = Append(invs,
          [NewInvocation(fn, "", item) EXCEPT
              !.pc = IF fn = "compose" THEN "done" ELSE "raised",
              !.statusCode = IF fn = "compose" THEN 500 ELSE 0,
              !.body = IF fn = "compose" THEN "Composition failed" ELSE "",
              !.err = "AttributeError"])
    /\ UNCHANGED <<job, MEDIA_TABLE, UPLOAD_TABLE, item, s3, now, media,
                   inflight, invokeLog, youtube>>

Running(k, fn, pc) ==
    /\ k \in 1..Len(invs)
    /\ invs[k].fn = fn
    /\ invs[k].pc = pc

Wrote(inv, field, value) == [inv EXCEPT !.writes = Append(@, <<field, value>>)]

\* compose_media.py lambda_handler: check_both_ready and the branch on it.
ComposeCheckReady(k) ==
    /\ Running(k, "compose", "start")
    /\ \E read_ok \in BOOLEAN :
         LET seen == IF ~read_ok THEN "unread"
                     ELSE IF ~item.exists THEN "missing"
                     ELSE item.video_audio_status
         IN  invs' = [invs EXCEPT ![k] =
                IF check_both_ready(read_ok, item)
                THEN [@ EXCEPT !.seen = seen, !.pc = "mark_in_progress"]
                ELSE [@ EXCEPT !.seen = seen, !.pc = "done",
                               !.statusCode = 200, !.body = "waiting"]]
    /\ UNCHANGED <<job, MEDIA_TABLE, UPLOAD_TABLE, item, s3, now, media,
                   inflight, invokeLog, youtube>>

ComposeMarkInProgress(k) ==
    /\ Running(k, "compose", "mark_in_progress")
    /\ item' = update_job_coordination_status(item, "composition_status",
                                              "in_progress", now)
    /\ invs' = [invs EXCEPT ![k] =
                  [Wrote(@, "composition_status", "in_progress")
                     EXCEPT !.pc = "compose"]]
    /\ UNCHANGED <<job, MEDIA_TABLE, UPLOAD_TABLE, s3, now, media, inflight,
                   invokeLog, youtube>>

\* compose_media: the two listings answer in any order; fail_at is the mux
\* that fails (0: none), concat_ok the concatenation's exit.  The final
\* video is uploaded on success only.
ComposeMedia(k) ==
    /\ Running(k, "compose", "compose")
    /\ \E audio_contents \in Listings(s3, "generated-audio"),
          video_contents \in Listings(s3, "generated-videos"),
          concat_ok \in BOOLEAN :
         \E fail_at \in 0..Len(audio_contents) :
           LET r == compose_media(audio_contents, video_contents, fail_at,
                                  concat_ok)
           IN  /\ invs' = [invs EXCEPT ![k] =
                     [@ EXCEPT !.pc = IF r.ok THEN "mark_complete"
                                      ELSE "mark_failed",
                               !.err = r.err, !.naudio = r.naudio,
                               !.nvideo = r.nvideo, !.muxes = r.muxes,
                               !.concats = r.concats,
                               !.manifest = r.manifest,
                               !.tmp = r.tmp, !.fault = r.fault,
                               !.pairs = r.pairs, !.final = r.final,
                               !.uploads = IF r.ok THEN @ + 1 ELSE @]]
               /\ s3' = IF r.ok THEN s3 \cup {FinalVideoKey} ELSE s3
    /\ UNCHANGED <<job, MEDIA_TABLE, UPLOAD_TABLE, item, now, media, inflight,
                   invokeLog, youtube>>

ComposeMarkComplete(k) ==
    /\ Running(k, "compose", "mark_complete")
    /\ item' = update_job_coordination_status(item, "composition_status",
                                              "complete", now)
    /\ invs' = [invs EXCEPT ![k] =
                  [Wrote(@, "composition_status", "complete")
                     EXCEPT !.pc = "mark_url"]]
    /\ UNCHANGED <<job, MEDIA_TABLE, UPLOAD_TABLE, s3, now, media, inflight,
                   invokeLog, youtube>>

\* The handler's last update and its return on the success path.  No
\* invocation of another function is issued.
ComposeReturn(k) ==
    /\ Running(k, "compose", "mark_url")
    /\ item' = update_job_coordination_status(item, "final_video_url",
                                              "final-videos", now)
    /\ invs' = [invs EXCEPT ![k] =
                  [Wrote(@, "final_video_url", "final-videos")
                     EXCEPT !.pc = "done", !.statusCode = 200,
                            !.body = "composed"]]
    /\ UNCHANGED <<job, MEDIA_TABLE, UPLOAD_TABLE, s3, now, media, inflight,
                   invokeLog, youtube>>

\* The handler's except branch.
ComposeFail(k) ==
    /\ Running(k, "compose", "mark_failed")
    /\ item' = update_job_coordination_status(item, "composition_status",
                                              "failed", now)
    /\ invs' = [invs EXCEPT ![k] =
                  [Wrote(@, "composition_status", "failed")
                     EXCEPT !.pc = "done", !.statusCode = 500,
                            !.body = "Composition failed"]]
    /\ UNCHANGED <<job, MEDIA_TABLE, UPLOAD_TABLE, s3, now, media, inflight,
                   invokeLog, youtube>>

\* upload-youtube.py lambda_handler: get_job_details.
UploadGetJobDetails(k) ==
    /\ Running(k, "upload", "start")
    /\ invs' = [invs EXCEPT ![k] =
          IF get_job_details(UPLOAD_TABLE, item) = "none"
          THEN [@ EXCEPT !.pc = "mark_failed", !.err = "not found"]
          ELSE [@ EXCEPT !.pc = "locate"]]
    /\ UNCHANGED <<job, MEDIA_TABLE, UPLOAD_TABLE, item, s3, now, media,
                   inflight, invokeLog, youtube>>

\* get_composed_video_s3_key and download_video_from_s3.
UploadLocate(k) ==
    /\ Running(k, "upload", "locate")
    /\ IF get_composed_video_s3_key(s3, invs[k].video_type) = {}
       THEN invs' = [invs EXCEPT ![k] =
                       [@ EXCEPT !.pc = "mark_failed",
                                 !.err = "no composed video"]]
       ELSE \E key \in get_composed_video_s3_key(s3, invs[k].video_type) :
              invs' = [invs EXCEPT ![k] =
                         [@ EXCEPT !.pc = "upload", !.video_s3_key = key]]
    /\ UNCHANGED <<job, MEDIA_TABLE, UPLOAD_TABLE, item, s3, now, media,
                   inflight, invokeLog, youtube>>

\* upload_to_youtube: the video is inserted, or the call raises.
UploadToYoutube(k) ==
    /\ Running(k, "upload", "upload")
    /\ \E inserted \in BOOLEAN :
         IF inserted
         THEN /\ youtube' = youtube + 1
              /\ invs' = [invs EXCEPT ![k] =
                    [@ EXCEPT !.pc = "mark_complete", !.uploads = @ + 1]]
         ELSE /\ youtube' = youtube
              /\ invs' = [invs EXCEPT ![k] =
                    [@ EXCEPT !.pc = "mark_failed", !.err = "upload failed"]]
    /\ UNCHANGED <<job, MEDIA_TABLE, UPLOAD_TABLE, item, s3, now, media,
                   inflight, invokeLog>>

\* update_job_upload_status("complete", video_id, video_url) and the return.
UploadMarkComplete(k) ==
    /\ Running(k, "upload", "mark_complete")
    /\ item' = update_job_upload_status(UPLOAD_TABLE, item, "complete",
                                        youtube, now)
    /\ invs' = [invs EXCEPT ![k] =
                  [Wrote(@, "upload_status", "complete")
                     EXCEPT !.pc = "done", !.statusCode = 200,
                            !.body = "uploaded"]]
    /\ UNCHANGED <<job, MEDIA_TABLE, UPLOAD_TABLE, s3, now, media, inflight,
                   invokeLog, youtube>>

\* The handler's except branch.
UploadFail(k) ==
    /\ Running(k, "upload", "mark_failed")
    /\ item' = update_job_upload_status(UPLOAD_TABLE, item, "failed", 0, now)
    /\ invs' = [invs EXCEPT ![k] =
                  [(IF UPLOAD_TABLE THEN Wrote(@, "upload_status", "failed")
                    ELSE @)
                     EXCEPT !.pc = "done", !.statusCode = 500,
                            !.body = "Upload failed"]]
    /\ UNCHANGED <<job, MEDIA_TABLE, UPLOAD_TABLE, s3, now, media, inflight,
                   invokeLog, youtube>>

Next ==
    \/ Tick
    \/ InitializeJob
    \/ \E i \in 1..MaxScenes : i \in DOMAIN media.video /\ GenerateVideo(i)
    \/ \E i \in 1..MaxScenes : i \in DOMAIN media.audio /\ GenerateAudio(i)
    \/ StoreResults
    \/ CompleteJob
    \/ TriggerNextStep
    \/ \E e \in inflight : Deliver(e)
    \/ ExternalInvoke("compose", "")
    \/ \E vt \in VideoTypes : ExternalInvoke("upload", vt)
    \/ \E fn \in {"compose", "upload"} : InvokeMalformed(fn)
    \/ \E k \in 1..MaxInvocations :
         \/ ComposeCheckReady(k)
         \/ ComposeMarkInProgress(k)
         \/ ComposeMedia(k)
         \/ ComposeMarkComplete(k)
         \/ ComposeReturn(k)
         \/ ComposeFail(k)
         \/ UploadGetJobDetails(k)
         \/ UploadLocate(k)
         \/ UploadToYoutube(k)
         \/ UploadMarkComplete(k)
         \/ UploadFail(k)

Spec == Init /\ [][Next]_vars

----------------------------------------------------------------------------
\* One composition followed on its own: the media stage has completed a
\* regular job and invoked the composition function once; the bucket holds
\* any of the fragments of scenes 1..MaxFragments, and may hold a second
\* audio file of scene 1 under another name and a file without a scene
\* number.

ComposeKeys ==
    {SceneAudioKey(n) : n \in 1..MaxFragments}
    \cup {SceneVideoKey(n) : n \in 1..MaxFragments}
    \cup {S3Key("generated-audio", "scene_tts", 1, "wav"),
          S3Key("generated-videos", "thumbnail", 0, "jpg")}

ComposeInit ==
    /\ job = [video_type |-> "regular"]
    /\ MEDIA_TABLE = TRUE
    /\ UPLOAD_TABLE = TRUE
    /\ item = complete_job(initialize_job(TRUE, NoItem, "regular", 0), 0)
    /\ s3 \in SUBSET ComposeKeys
    /\ now = 0
    /\ media = [pc |-> "done"]
    /\ invs = <<>>
    /\ inflight = {Event("compose", "")}
    /\ invokeLog = <<Event("compose", "")>>
    /\ youtube = 0

ComposeNext ==
    \/ \E e \in inflight : Deliver(e)
    \/ \E k \in 1..MaxInvocations :
         \/ ComposeCheckReady(k)
         \/ ComposeMarkInProgress(k)
         \/ ComposeMedia(k)
         \/ ComposeMarkComplete(k)
         \/ ComposeReturn(k)
         \/ ComposeFail(k)

ComposeSpec == ComposeInit /\ [][ComposeNext]_vars

----------------------------------------------------------------------------
\* The media stage in detail: the script as received, the scene records,
\* the per-scene tasks of generate_media and their Fragment Results.

\* Python's None, kept apart from every text.
None == <<"None">>

\* Texts are sequences of characters; " " is whitespace.
RECURSIVE lstrip(_)
lstrip(text) ==
    IF text # <<>> /\ Head(text) = " " THEN lstrip(Tail(text)) ELSE text

RECURSIVE rstrip(_)
rstrip(text) ==
    IF text # <<>> /\ text[Len(text)] = " "
    THEN rstrip(SubSeq(text, 1, Len(text) - 1))
    ELSE text

\* str.strip()
strip(text) == rstrip(lstrip(text))

\* The voiceover values of the scripts considered: no text, whitespace,
\* text with leading whitespace, and JSON null.
Voiceovers == {<<>>, <<" ">>, <<" ", "a">>, None}

\* A scene of the script: scene_number is <<>> when the key is absent and
\* <<n>> when it is n.
RawScenes == [scene_number : {<<>>} \cup {<<n>> : n \in 1..MaxScenes},
              voiceover : Voiceovers]

RawScripts == UNION {[1..n -> RawScenes] : n \in 0..MaxScenes}

\* The response of a media request: text that does not parse as JSON, an
\* object without the "scenes" key, or an object with a scenes array; master
\* says the object has a master_prompt_context.
Responses ==
    {[json |-> FALSE, has_scenes |-> FALSE, scenes |-> <<>>, master |-> FALSE]}
    \cup {[json |-> TRUE, has_scenes |-> FALSE, scenes |-> <<>>, master |-> m]
            : m \in BOOLEAN}
    \cup {[json |-> TRUE, has_scenes |-> TRUE, scenes |-> sc, master |-> m]
            : sc \in RawScripts, m \in BOOLEAN}

\* dict.get(key, default) on an optional value.
Get(opt, default) == IF opt = <<>> THEN default ELSE opt[1]

extract_scenes_fallback(response) ==
    IF ~response.json \/ ~response.has_scenes
    THEN [ok |-> TRUE, err |-> "",
          scenes |-> <<[scene_number |-> 1, voiceover |-> <<>>,
                        master_prompt_context |-> response.master]>>]
    ELSE LET raw == response.scenes
         IN  [ok |-> TRUE, err |-> "",
              scenes |-> [i \in 1..Len(raw) |->
                 [scene_number |-> Get(raw[i].scene_number, i),
                  voiceover |-> raw[i].voiceover,
                  master_prompt_context |-> response.master]]]

extract_scenes_sorted(response) ==
    IF ~response.json THEN [ok |-> FALSE, err |-> "JSONDecodeError",
                            scenes |-> <<>>]
    ELSE IF ~response.has_scenes
    THEN [ok |-> FALSE, err |-> "missing scenes key", scenes |-> <<>>]
    ELSE LET raw == response.scenes
             numbers == SortedSeq({Get(raw[i].scene_number, i)
                                     : i \in 1..Len(raw)})
         IN  [ok |-> TRUE, err |-> "",
              scenes |-> [i \in 1..Len(numbers) |->
                 [scene_number |-> numbers[i],
                  voiceover |-> raw[i].voiceover,
                  master_prompt_context |-> response.master]]]

\* extract_scenes: one record per element of the scenes array, in array
\* order; it raises when the text is not JSON or has no "scenes" key.
extract_scenes(response) ==
    IF ~response.json THEN [ok |-> FALSE, err |-> "JSONDecodeError",
                            scenes |-> <<>>]
    ELSE IF ~response.has_scenes
    THEN [ok |-> FALSE, err |-> "missing scenes key", scenes |-> <<>>]
    ELSE LET raw == response.scenes
         IN  [ok |-> TRUE, err |-> "",
              scenes |-> [i \in 1..Len(raw) |->
                 [scene_number |-> Get(raw[i].scene_number, i),
                  voiceover |-> raw[i].voiceover,
                  master_prompt_context |-> response.master]]]

\* A Fragment Result, as the dictionary a task returns; api_result is its
\* video_result or audio_result, <<>> when the task made no API call.
FragmentResult(scene_index, scene_number, status, error) ==
    [raised |-> FALSE, scene_index |-> scene_index,
     scene_number |-> scene_number, status |-> status, error |-> error,
     api_result |-> <<>>]

\* What asyncio.gather(return_exceptions=True) holds for a task that
\* raised: the exception, which carries no scene.
Raised(message) ==
    [raised |-> TRUE, scene_index |-> -1, scene_number |-> 0,
     status |-> "", error |-> message, api_result |-> <<>>]

\* A task that has not ended.
Pending ==
    [raised |-> FALSE, scene_index |-> -1, scene_number |-> 0,
     status |-> "pending", error |-> "", api_result |-> <<>>]

\* What one task did: its result, the number of inference requests it
\* submitted, and the keys it stored.
TaskRun(result, submitted, keys) ==
    [result |-> result, submitted |-> submitted, keys |-> keys]

\* download_to_s3 for the fragment's key: nothing without the bucket name;
\* a failed download and a failed upload_fileobj are caught and answered
\* with success False; else the object is stored under the key.
download_to_s3(key, bucket_set, outcome) ==
    IF ~bucket_set
    THEN [success |-> FALSE, error |-> "S3_BUCKET not configured",
          keys |-> {}]
    ELSE IF outcome \in {"download_failed", "put_failed"}
    THEN [success |-> FALSE, error |-> outcome, keys |-> {}]
    ELSE [success |-> TRUE, error |-> "", keys |-> {key}]

call_api_resubmit(key, env, outcome) ==
    IF ~env.FAL_KEY
    THEN [success |-> FALSE, submitted |-> 0, keys |-> {},
          error |-> "FAL API key not configured", details |-> <<>>]
    ELSE IF outcome = "api_error"
    THEN [success |-> FALSE, submitted |-> 1, keys |-> {},
          error |-> "API call failed", details |-> <<"exception">>]
    ELSE IF outcome = "no_url"
    THEN [success |-> FALSE, submitted |-> 2, keys |-> {},
          error |-> "No URL in response", details |-> <<"result">>]
    ELSE LET download_result == download_to_s3(key, env.S3_BUCKET, outcome)
             merged == download_result @@ [success |-> TRUE]
         IN  [success |-> merged.success, submitted |-> 1,
              keys |-> download_result.keys, error |-> merged.error,
              details |-> <<>>]

call_api_success_first(key, env, outcome) ==
    IF ~env.FAL_KEY
    THEN [success |-> FALSE, submitted |-> 0, keys |-> {},
          error |-> "FAL API key not configured", details |-> <<>>]
    ELSE IF outcome = "api_error"
    THEN [success |-> FALSE, submitted |-> 1, keys |-> {},
          error |-> "API call failed", details |-> <<"exception">>]
    ELSE IF outcome = "no_url"
    THEN [success |-> FALSE, submitted |-> 1, keys |-> {},
          error |-> "No URL in response", details |-> <<"result">>]
    ELSE LET download_result == download_to_s3(key, env.S3_BUCKET, outcome)
             merged == [success |-> TRUE] @@ download_result
         IN  [success |-> merged.success, submitted |-> 1,
              keys |-> download_result.keys, error |-> merged.error,
              details |-> <<>>]

\* call_video_api / call_audio_api for the fragment's key.  Without FAL_KEY
\* an error is returned before any request.  Else one request is submitted
\* and awaited: an exception ("api_error") and a terminal result without a
\* url ("no_url") are answered with an error dictionary, which has no
\* "success" key, the second with the raw result as details; a result with
\* a url is answered with {"success": True, **download_result}, where the
\* keys of download_result replace those before it.  submitted counts the
\* requests, success is result.get("success", False).
call_api(key, env, outcome) ==
    IF ~env.FAL_KEY
    THEN [success |-> FALSE, submitted |-> 0, keys |-> {},
          error |-> "FAL API key not configured", details |-> <<>>]
    ELSE IF outcome = "api_error"
    THEN [success |-> FALSE, submitted |-> 1, keys |-> {},
          error |-> "API call failed", details |-> <<"exception">>]
    ELSE IF outcome = "no_url"
    THEN [success |-> FALSE, submitted |-> 1, keys |-> {},
          error |-> "No URL in response", details |-> <<"result">>]
    ELSE LET download_result == download_to_s3(key, env.S3_BUCKET, outcome)
             merged == download_result @@ [success |-> TRUE]
         IN  [success |-> merged.success, submitted |-> 1,
              keys |-> download_result.keys, error |-> merged.error,
              details |-> <<>>]

\* generate_video for scenes[scene_index]; outcome "raised" is an exception
\* inside its try block, before the request.
generate_video(scene, scene_index, env, outcome) ==
    LET scene_number == scene.scene_number
    IN  IF outcome = "raised"
        THEN TaskRun(FragmentResult(scene_index, scene_number, "failed",
                                    "Exception"), 0, {})
        ELSE LET r == call_api(SceneVideoKey(scene_number), env, outcome)
             IN  TaskRun([FragmentResult(scene_index, scene_number,
                             IF r.success THEN "success" ELSE "failed", "")
                          EXCEPT !.api_result =
                             <<[success |-> r.success, error |-> r.error,
                                details |-> r.details]>>],
                         r.submitted, r.keys)

generate_audio_nostrip(scene, scene_index, env, outcome) ==
    LET scene_number == scene.scene_number
        voiceover_text == scene.voiceover
    IN  IF voiceover_text = None
        THEN TaskRun(Raised("TypeError"), 0, {})
        ELSE IF voiceover_text = <<>>
        THEN TaskRun(FragmentResult(scene_index, scene_number, "skipped", ""),
                     0, {})
        ELSE IF outcome = "raised"
        THEN TaskRun(FragmentResult(scene_index, scene_number, "failed",
                                    "Exception"), 0, {})
        ELSE LET r == call_api(SceneAudioKey(scene_number), env, outcome)
             IN  TaskRun([FragmentResult(scene_index, scene_number,
                             IF r.success THEN "success" ELSE "failed", "")
                          EXCEPT !.api_result =
                             <<[success |-> r.success, error |-> r.error,
                                details |-> r.details]>>],
                         r.submitted, r.keys)

\* generate_audio for scenes[scene_index].  len(voiceover_text) is taken
\* before the try block, so a null voiceover raises out of the task; a
\* voiceover that strips to nothing is skipped.
generate_audio(scene, scene_index, env, outcome) ==
    LET scene_number == scene.scene_number
        voiceover_text == scene.voiceover
    IN  IF voiceover_text = None
        THEN TaskRun(Raised("TypeError"), 0, {})
        ELSE IF strip(voiceover_text) = <<>>
        THEN TaskRun(FragmentResult(scene_index, scene_number, "skipped", ""),
                     0, {})
        ELSE IF outcome = "raised"
        THEN TaskRun(FragmentResult(scene_index, scene_number, "failed",
                                    "Exception"), 0, {})
        ELSE LET r == call_api(SceneAudioKey(scene_number), env, outcome)
             IN  TaskRun([FragmentResult(scene_index, scene_number,
                             IF r.success THEN "success" ELSE "failed", "")
                          EXCEPT !.api_result =
                             <<[success |-> r.success, error |-> r.error,
                                details |-> r.details]>>],
                         r.submitted, r.keys)

\* The video tasks generate_media creates: one per scene.
video_tasks(scenes) == [i \in 1..Len(scenes) |-> Pending]

audio_tasks_always(video_type, scenes) == [i \in 1..Len(scenes) |-> Pending]

\* The audio tasks generate_media creates: none for a short.
audio_tasks(video_type, scenes) ==
    IF video_type = "short" THEN <<>>
    ELSE [i \in 1..Len(scenes) |-> Pending]

gather_first(tasks) ==
    tasks = <<>> \/ \E i \in 1..Len(tasks) : tasks[i] # Pending

\* asyncio.gather returns when every task has ended.
gather(tasks) == \A i \in 1..Len(tasks) : tasks[i] # Pending

process_results_drop(results, scenes) ==
    SelectSeq(results, LAMBDA r : ~r.raised)

process_results_keep(results, scenes) == results

process_results_position(results, scenes) ==
    [i \in 1..Len(results) |->
        IF results[i].raised
        THEN FragmentResult(i - 1, i, "failed", results[i].error)
        ELSE results[i]]

\* process_results: an exception at position i becomes a failed result
\* for scenes[i]; every other result is passed on.
process_results(results, scenes) ==
    [i \in 1..Len(results) |->
        IF results[i].raised
        THEN FragmentResult(i - 1, scenes[i].scene_number, "failed",
                            results[i].error)
        ELSE results[i]]

\* What a task's API call can do when it gets that far.
Outcomes == {"stored", "no_url", "api_error", "download_failed", "put_failed", "raised"}

\* The media function received a validated message: its response is still
\* text, FAL_KEY says the inference credential is set, S3_BUCKET that the
\* bucket name is.
MediaInit ==
    /\ \E r \in Responses, vt \in VideoTypes, key \in BOOLEAN, bucket \in BOOLEAN :
         job = [video_type |-> vt, has_master |-> r.master, response |-> r,
                FAL_KEY |-> key, S3_BUCKET |-> bucket]
    /\ MEDIA_TABLE \in BOOLEAN
    /\ UPLOAD_TABLE = TRUE
    /\ item = NoItem
    /\ s3 = {}
    /\ now = 0
    /\ media = [pc |-> "received", scenes |-> <<>>, video |-> <<>>,
                audio |-> <<>>, video_calls |-> <<>>, audio_calls |-> <<>>,
                fn_set |-> FALSE, updated |-> FALSE]
    /\ invs = <<>>
    /\ inflight = {}
    /\ invokeLog = <<>>
    /\ youtube = 0

\* process_media_request: extract_scenes and the test of its result.  An
\* error leaves the function before the job has an id.
ExtractScenes ==
    /\ media.pc = "received"
    /\ LET r == extract_scenes(job.response)
       IN  media' = IF r.ok /\ r.scenes # <<>>
                    THEN [media EXCEPT !.pc = "start", !.scenes = r.scenes]
                    ELSE [media EXCEPT !.pc = "rejected"]
    /\ UNCHANGED <<job, MEDIA_TABLE, UPLOAD_TABLE, item, s3, now, invs,
                   inflight, invokeLog, youtube>>

\* generate_media creates its tasks and awaits them.
CreateTasks ==
    /\ media.pc = "generate"
    /\ media.scenes # <<>>
    /\ media' = [media EXCEPT
          !.pc = "gather",
          !.video = video_tasks(media.scenes),
          !.audio = audio_tasks(job.video_type, media.scenes),
          !.video_calls = [i \in 1..Len(media.scenes) |-> 0],
          !.audio_calls = [i \in 1..Len(media.scenes) |-> 0]]
    /\ UNCHANGED <<job, MEDIA_TABLE, UPLOAD_TABLE, item, s3, now, invs,
                   inflight, invokeLog, youtube>>

\* The video task of scenes[i - 1] runs to its end.
VideoTask(i) ==
    /\ media.pc = "gather"
    /\ i \in 1..Len(media.video)
    /\ media.video[i] = Pending
    /\ \E outcome \in Outcomes :
         LET t == generate_video(media.scenes[i], i - 1, job, outcome)
         IN  /\ media' = [media EXCEPT !.video[i] = t.result,
                                       !.video_calls[i] = @ + t.submitted]
             /\ s3' = s3 \cup t.keys
    /\ UNCHANGED <<job, MEDIA_TABLE, UPLOAD_TABLE, item, now, invs, inflight,
                   invokeLog, youtube>>

\* The audio task of scenes[i - 1] runs to its end.
AudioTask(i) ==
    /\ media.pc = "gather"
    /\ i \in 1..Len(media.audio)
    /\ media.audio[i] = Pending
    /\ \E outcome \in Outcomes :
         LET t == generate_audio(media.scenes[i], i - 1, job, outcome)
         IN  /\ media' = [media EXCEPT !.audio[i] = t.result,
                                       !.audio_calls[i] = @ + t.submitted]
             /\ s3' = s3 \cup t.keys
    /\ UNCHANGED <<job, MEDIA_TABLE, UPLOAD_TABLE, item, now, invs, inflight,
                   invokeLog, youtube>>

\* Both gathers have returned: generate_media returns the processed lists
\* and store_results writes them to results.json.
GenerateMediaReturn ==
    /\ media.pc = "gather"
    /\ gather(media.video)
    /\ gather(media.audio)
    /\ media' = [media EXCEPT
          !.pc = "complete",
          !.video = process_results(media.video, media.scenes),
          !.audio = process_results(media.audio, media.scenes)]
    /\ s3' = s3 \cup {ResultsKey}
    /\ UNCHANGED <<job, MEDIA_TABLE, UPLOAD_TABLE, item, now, invs, inflight,
                   invokeLog, youtube>>

MediaNext ==
    \/ ExtractScenes
    \/ InitializeJob
    \/ CreateTasks
    \/ \E i \in 1..MaxScenes : VideoTask(i)
    \/ \E i \in 1..MaxScenes : AudioTask(i)
    \/ GenerateMediaReturn
    \/ CompleteJob
    \/ TriggerNextStep

MediaSpec == MediaInit /\ [][MediaNext]_vars

----------------------------------------------------------------------------
\* upload-youtube.py in detail: the metadata of the published video.  Texts
\* are sequences of characters; the fixed wording of the title prefix, of
\* the description and of the default tags is shortened.

\* text[:n]
Take(text, n) == SubSeq(text, 1, IF Len(text) < n THEN Len(text) ELSE n)

\* A text of n characters c.
Chars(n, c) == [i \in 1..n |-> c]

\* text.split(sep)
RECURSIVE split(_, _)
split(text, sep) ==
    IF \A i \in 1..Len(text) : text[i] # sep THEN <<text>>
    ELSE LET i == CHOOSE i \in 1..Len(text) :
                     text[i] = sep /\ \A j \in 1..(i - 1) : text[j] # sep
         IN  <<SubSeq(text, 1, i - 1)>>
             \o split(SubSeq(text, i + 1, Len(text)), sep)

\* sep.join(items)
RECURSIVE join(_, _)
join(items, sep) ==
    IF items = <<>> THEN <<>>
    ELSE IF Len(items) = 1 THEN items[1]
    ELSE items[1] \o <<sep>> \o join(Tail(items), sep)

\* text.replace(old, new), old and new one character each
replace(text, old, new) ==
    [i \in 1..Len(text) |-> IF text[i] = old THEN new ELSE text[i]]

\* A hashtags value: a list of tags (the event's form) or one
\* comma-separated text (the table's form).
HashtagList(items) == [is_list |-> TRUE, items |-> items, text |-> <<>>]
HashtagText(text) == [is_list |-> FALSE, items |-> <<>>, text |-> text]

\* Python's truth value of a hashtags value.
Truthy(h) == IF h.is_list THEN h.items # <<>> ELSE h.text # <<>>

\* The keys of the event's response object that the handler reads.
ResponseKeys ==
    {"title", "video_title", "summary", "description", "hashtags", "tags",
     "topic"}

\* The job details get_job_details builds from the item of the table; the
\* item's ai_response is taken as absent.
job_details_of(it) ==
    [original_prompt |-> it.original_prompt,
     video_title |-> it.video_title,
     video_summary |-> it.video_summary,
     video_hashtags |-> HashtagText(it.video_hashtags),
     video_topic |-> it.video_topic]

event_response_override_stored_first(job_details, r) ==
    IF r.keys = {} THEN job_details
    ELSE [job_details EXCEPT
            !.video_title = IF @ # <<>> THEN @
                            ELSE IF "title" \in r.keys THEN r.title
                            ELSE IF "video_title" \in r.keys
                            THEN r.video_title ELSE @,
            !.video_summary = IF @ # <<>> THEN @
                              ELSE IF "summary" \in r.keys THEN r.summary
                              ELSE IF "description" \in r.keys
                              THEN r.description ELSE @,
            !.video_hashtags = IF Truthy(@) THEN @
                               ELSE IF "hashtags" \in r.keys THEN r.hashtags
                               ELSE IF "tags" \in r.keys THEN r.tags ELSE @,
            !.video_topic = IF @ # <<>> THEN @
                            ELSE IF "topic" \in r.keys THEN r.topic ELSE @]

\* lambda_handler: a response object of the event that is not empty
\* replaces the job details' metadata, key by key.
event_response_override(job_details, r) ==
    IF r.keys = {} THEN job_details
    ELSE [job_details EXCEPT
            !.video_title = IF "title" \in r.keys THEN r.title
                            ELSE IF "video_title" \in r.keys
                            THEN r.video_title ELSE @,
            !.video_summary = IF "summary" \in r.keys THEN r.summary
                              ELSE IF "description" \in r.keys
                              THEN r.description ELSE @,
            !.video_hashtags = IF "hashtags" \in r.keys THEN r.hashtags
                               ELSE IF "tags" \in r.keys THEN r.tags ELSE @,
            !.video_topic = IF "topic" \in r.keys THEN r.topic ELSE @]

\* format_hashtags_for_description
format_hashtags_for_description(hashtags) ==
    IF hashtags.is_list THEN join(hashtags.items, " ")
    ELSE replace(hashtags.text, ",", " ")

\* "AI Short: " or "AI Story: ", then original_prompt[:80], then "..."
GeneratedTitle(video_type, original_prompt) ==
    (IF video_type = "short"
     THEN <<"A", "I", " ", "S", "h", "o", "r", "t", ":", " ">>
     ELSE <<"A", "I", " ", "S", "t", "o", "r", "y", ":", " ">>)
    \o Take(original_prompt, 80) \o <<".", ".", ".">>

\* The title cut to the video host's limit.
TitleWithinLimit(title) ==
    IF Len(title) > 100 THEN Take(title, 97) \o <<".", ".", ".">> ELSE title

\* The hashtags line of a description without stored hashtags.
DefaultHashtags == <<"#", "A", "I">>

\* The tags used without stored hashtags: nine fixed tags, then those of
\* the video type and of the role, cut to ten.
DefaultTags(video_type) ==
    Take([i \in 1..9 |-> <<"A", "I">>]
         \o (IF video_type = "short"
             THEN << <<"S", "h", "o", "r", "t", "s">>, <<"S", "F">>,
                     <<"Q", "C">> >>
             ELSE << <<"S", "t", "o", "r", "y">>, <<"N">>, <<"L", "F">> >>),
         10)

\* One tag of the hashtags: stripped, without its leading "#".
CleanTag(tag) ==
    LET t == strip(tag)
    IN  IF t # <<>> /\ t[1] = "#" THEN Tail(t) ELSE t

\* The tags kept: not empty and of at most 50 characters.
RECURSIVE KeptTags(_)
KeptTags(items) ==
    IF items = <<>> THEN <<>>
    ELSE LET t == CleanTag(items[1])
         IN  (IF t # <<>> /\ Len(t) <= 50 THEN <<t>> ELSE <<>>)
             \o KeptTags(Tail(items))

\* The tags made of a hashtags value that is not empty.
HashtagTags(hashtags) ==
    Take(KeptTags(IF hashtags.is_list THEN hashtags.items
                  ELSE split(hashtags.text, ",")), 10)

\* title, description and tags of the video; the description is given by
\* its two variable parts.  job_details has no "title", "summary",
\* "hashtags" or "topic" key, so each "or" falls back to "".
prepare_video_metadata(job_details, video_type) ==
    LET stored_title == job_details.video_title
        stored_summary == job_details.video_summary
        stored_hashtags == job_details.video_hashtags
        stored_topic == job_details.video_topic
        title == IF stored_title # <<>> THEN stored_title
                 ELSE GeneratedTitle(video_type, job_details.original_prompt)
        description ==
            IF stored_summary # <<>>
            THEN [text |-> stored_summary,
                  hashtags |-> IF Truthy(stored_hashtags)
                               THEN format_hashtags_for_description(
                                        stored_hashtags)
                               ELSE DefaultHashtags]
            ELSE [text |-> <<"P", "r", "o", "m", "p", "t", ":", " ">>
                           \o job_details.original_prompt,
                  hashtags |-> DefaultHashtags]
        tags == IF Truthy(stored_hashtags) THEN HashtagTags(stored_hashtags)
                ELSE DefaultTags(video_type)
    IN  [title |-> TitleWithinLimit(title), description |-> description,
         tags |-> tags]

\* The values considered for the event's response object.
EventTitles == {<<>>, <<"e">>, Chars(101, "e")}
EventSummaries == {<<>>, <<"m">>}
EventHashtags ==
    {HashtagList(<<>>),
     HashtagList(<< <<"#", "e">>, <<" ", "f", " ">>, <<"#">> >>),
     HashtagList(<< Chars(51, "x"), <<"g">> >>),
     HashtagList([i \in 1..11 |-> <<"#", "e">>])}
EventTopics == {<<>>, <<"t">>}

EventResponses ==
    UNION {
      {[keys |-> K, title |-> t, summary |-> s, hashtags |-> h, topic |-> c,
        video_title |-> IF "video_title" \in K THEN <<"v">> ELSE <<>>,
        description |-> IF "description" \in K THEN <<"d">> ELSE <<>>,
        tags |-> IF "tags" \in K THEN HashtagList(<< <<"#", "a">> >>)
                 ELSE HashtagList(<<>>)] :
          t \in IF "title" \in K THEN EventTitles ELSE {<<>>},
          s \in IF "summary" \in K THEN EventSummaries ELSE {<<>>},
          h \in IF "hashtags" \in K THEN EventHashtags
                ELSE {HashtagList(<<>>)},
          c \in IF "topic" \in K THEN EventTopics ELSE {<<>>}} :
      K \in SUBSET ResponseKeys}

\* The items considered: none, or one with each metadata attribute empty
\* or set.
StoredItems ==
    [exists : {TRUE}, original_prompt : {<<"p">>},
     video_title : {<<>>, <<"S">>}, video_summary : {<<>>, <<"M">>},
     video_hashtags : {<<>>, <<"#", "s", ",", " ", "u", ",">>},
     video_topic : {<<>>, <<"T">>}]
    \cup
    {[exists |-> FALSE, original_prompt |-> <<>>, video_title |-> <<>>,
      video_summary |-> <<>>, video_hashtags |-> <<>>,
      video_topic |-> <<>>]}

NoMetadata ==
    [title |-> <<>>, description |-> [text |-> <<>>, hashtags |-> <<>>],
     tags |-> <<>>]

\* One upload invocation whose event carries job_id, video_type and a
\* response object, for a job whose composed video is in the bucket.
PublishInit ==
    /\ job \in [video_type : VideoTypes, response : EventResponses]
    /\ MEDIA_TABLE = TRUE
    /\ UPLOAD_TABLE = TRUE
    /\ item \in StoredItems
    /\ s3 = {}
    /\ now = 0
    /\ media = [pc |-> "done"]
    /\ invs = <<[fn |-> "upload", pc |-> "get_job_details", statusCode |-> 0,
                 job_details |-> job_details_of(
                     [exists |-> FALSE, original_prompt |-> <<>>,
                      video_title |-> <<>>, video_summary |-> <<>>,
                      video_hashtags |-> <<>>, video_topic |-> <<>>]),
                 metadata |-> NoMetadata]>>
    /\ inflight = {}
    /\ invokeLog = <<>>
    /\ youtube = 0

\* get_job_details; no item makes the handler raise and answer 500.
PublishGetJobDetails ==
    /\ invs[1].pc = "get_job_details"
    /\ invs' = IF item.exists
               THEN [invs EXCEPT ![1].pc = "override",
                                 ![1].job_details = job_details_of(item)]
               ELSE [invs EXCEPT ![1].pc = "done", ![1].statusCode = 500]
    /\ UNCHANGED <<job, MEDIA_TABLE, UPLOAD_TABLE, item, s3, now, media,
                   inflight, invokeLog, youtube>>

\* The event's response object is laid over the job details.
PublishOverride ==
    /\ invs[1].pc = "override"
    /\ invs' = [invs EXCEPT
          ![1].pc = "upload",
          ![1].job_details = event_response_override(invs[1].job_details,
                                                     job.response)]
    /\ UNCHANGED <<job, MEDIA_TABLE, UPLOAD_TABLE, item, s3, now, media,
                   inflight, invokeLog, youtube>>

\* upload_to_youtube: the metadata is prepared and the video inserted.
PublishUpload ==
    /\ invs[1].pc = "upload"
    /\ invs' = [invs EXCEPT
          ![1].pc = "done",
          ![1].statusCode = 200,
          ![1].metadata = prepare_video_metadata(invs[1].job_details,
                                                 job.video_type)]
    /\ youtube' = youtube + 1
    /\ UNCHANGED <<job, MEDIA_TABLE, UPLOAD_TABLE, item, s3, now, media,
                   inflight, invokeLog>>

PublishNext ==
    \/ PublishGetJobDetails
    \/ PublishOverride
    \/ PublishUpload

PublishSpec == PublishInit /\ [][PublishNext]_vars

----------------------------------------------------------------------------
\* The media handler over a batch of records (BatchSpec)
\*
\* lambda_handler of request_media_generation.py walks the records of its
\* event in order and counts each record as processed or failed.  job is
\* the event's list of records; media holds the handler's counters, the
\* index of the record in turn, the number of put_item calls and of
\* inference requests so far, and the handler's answer.

\* The responses of the messages considered: an object without scenes, and
\* a script of one scene without and with a master prompt.
BatchResponses ==
    {r \in Responses :
        /\ r.json
        /\ Len(r.scenes) <= 1
        /\ (r.has_scenes <=> Len(r.scenes) = 1)
        /\ (~r.has_scenes => r.master)
        /\ \A i \in 1..Len(r.scenes) :
              r.scenes[i] = [scene_number |-> <<1>>, voiceover |-> <<" ", "a">>]}

\* A record of the event: json says its body parses to an object; prompt,
\* role and has_response say the message carries a non-empty value under
\* the key; type is "" when the key is absent or empty.
Messages ==
    [json : BOOLEAN, prompt : BOOLEAN, role : BOOLEAN, has_response : BOOLEAN,
     type : {""} \cup VideoTypes, response : BatchResponses]

Batches == UNION {[1..n -> Messages] : n \in 0..MaxRecords}

validate_no_type(message) ==
    message.prompt /\ message.role /\ message.has_response

\* all([prompt, role, response, video_type]) of process_media_request.
validate(message) ==
    message.prompt /\ message.role /\ message.has_response /\ message.type # ""

lambda_handler_count_drop(m, raised) ==
    IF raised
    THEN [m EXCEPT !.idx = @ + 1, !.pc = "record",
                   !.outcomes = Append(@, "failed")]
    ELSE [m EXCEPT !.processed = @ + 1, !.idx = @ + 1, !.pc = "record",
                   !.outcomes = Append(@, "processed")]

\* The end of one turn of the handler's loop: processed += 1 after
\* process_media_request returned, failed += 1 in the except branch.
lambda_handler_count(m, raised) ==
    IF raised
    THEN [m EXCEPT !.failed = @ + 1, !.idx = @ + 1, !.pc = "record",
                   !.outcomes = Append(@, "failed")]
    ELSE [m EXCEPT !.processed = @ + 1, !.idx = @ + 1, !.pc = "record",
                   !.outcomes = Append(@, "processed")]

\* The message of the record in turn.
Message == job[media.idx + 1]

BatchInit ==
    /\ job \in Batches
    /\ MEDIA_TABLE \in BOOLEAN
    /\ UPLOAD_TABLE = TRUE
    /\ item = NoItem
    /\ s3 = {}
    /\ now = 0
    /\ \E env \in [FAL_KEY : BOOLEAN, S3_BUCKET : BOOLEAN] :
         media = [pc |-> "record", idx |-> 0, processed |-> 0, failed |-> 0,
                  outcomes |-> <<>>, scenes |-> <<>>, created |-> 0,
                  calls |-> 0, statusCode |-> 0, env |-> env]
    /\ invs = <<>>
    /\ inflight = {}
    /\ invokeLog = <<>>
    /\ youtube = 0

\* json.loads(record["body"]) and the validation of process_media_request:
\* a body that is no JSON object and a message without one of the four
\* fields raise.
BatchValidate ==
    /\ media.pc = "record"
    /\ media.idx < Len(job)
    /\ media' = IF Message.json /\ validate(Message)
                THEN [media EXCEPT !.pc = "extract"]
                ELSE lambda_handler_count(media, TRUE)
    /\ UNCHANGED <<job, MEDIA_TABLE, UPLOAD_TABLE, item, s3, now, invs,
                   inflight, invokeLog, youtube>>

\* extract_scenes, the test of its result, and initialize_job for the new
\* job id.  item is the item of the job created last.
BatchInitializeJob ==
    /\ media.pc = "extract"
    /\ LET r == extract_scenes(Message.response)
       IN  IF r.ok /\ r.scenes # <<>>
           THEN /\ media' = [media EXCEPT
                      !.pc = "master", !.scenes = r.scenes,
                      !.created = IF MEDIA_TABLE THEN @ + 1 ELSE @]
                /\ item' = initialize_job(MEDIA_TABLE, NoItem, Message.type,
                                          now)
           ELSE /\ media' = lambda_handler_count(media, TRUE)
                /\ item' = item
    /\ UNCHANGED <<job, MEDIA_TABLE, UPLOAD_TABLE, s3, now, invs, inflight,
                   invokeLog, youtube>>

\* The master prompt of the response: without it process_media_request
\* raises, after the job's item was written.
BatchMasterPrompt ==
    /\ media.pc = "master"
    /\ media' = IF Message.response.master
                THEN [media EXCEPT !.pc = "generate"]
                ELSE lambda_handler_count(media, TRUE)
    /\ UNCHANGED <<job, MEDIA_TABLE, UPLOAD_TABLE, item, s3, now, invs,
                   inflight, invokeLog, youtube>>

\* The requests the tasks of a list submitted.
RECURSIVE Submissions(_)
Submissions(tasks) ==
    IF tasks = <<>> THEN 0 ELSE Head(tasks).submitted + Submissions(Tail(tasks))

\* generate_media for the job's scenes: every video task, and for a regular
\* job every audio task, runs to its end.
BatchGenerateMedia ==
    /\ media.pc = "generate"
    /\ \E video_outcome \in Outcomes, audio_outcome \in Outcomes :
         LET video == [i \in 1..Len(media.scenes) |->
                          generate_video(media.scenes[i], i - 1, media.env,
                                         video_outcome)]
             audio == IF Message.type = "short" THEN <<>>
                      ELSE [i \in 1..Len(media.scenes) |->
                              generate_audio(media.scenes[i], i - 1,
                                             media.env, audio_outcome)]
             runs == {video[i] : i \in 1..Len(video)}
                         \cup {audio[i] : i \in 1..Len(audio)}
         IN  /\ media' = [media EXCEPT
                   !.pc = "complete",
                   !.calls = @ + Submissions(video) + Submissions(audio)]
             /\ s3' = s3 \cup UNION {t.keys : t \in runs}
    /\ UNCHANGED <<job, MEDIA_TABLE, UPLOAD_TABLE, item, now, invs, inflight,
                   invokeLog, youtube>>

\* store_results, complete_job with trigger_next_step, and the return of
\* process_media_request.
BatchCompleteJob ==
    /\ media.pc = "complete"
    /\ \E stored \in BOOLEAN, updated \in BOOLEAN, upload_fn \in BOOLEAN, compose_fn \in BOOLEAN :
         LET events == IF MEDIA_TABLE /\ updated
                       THEN trigger_next_step(Message.type, upload_fn,
                                              compose_fn)
                       ELSE <<>>
         IN  /\ s3' = IF stored THEN s3 \cup {ResultsKey} ELSE s3
             /\ item' = IF MEDIA_TABLE /\ updated THEN complete_job(item, now)
                        ELSE item
             /\ invokeLog' = invokeLog \o events
             /\ inflight' = inflight \cup {events[i] : i \in 1..Len(events)}
    /\ media' = lambda_handler_count(media, FALSE)
    /\ UNCHANGED <<job, MEDIA_TABLE, UPLOAD_TABLE, now, invs, youtube>>

\* The handler's return after the last record.
BatchReturn ==
    /\ media.pc = "record"
    /\ media.idx = Len(job)
    /\ media' = [media EXCEPT !.pc = "returned", !.statusCode = 200]
    /\ UNCHANGED <<job, MEDIA_TABLE, UPLOAD_TABLE, item, s3, now, invs,
                   inflight, invokeLog, youtube>>

BatchNext ==
    \/ BatchValidate
    \/ BatchInitializeJob
    \/ BatchMasterPrompt
    \/ BatchGenerateMedia
    \/ BatchCompleteJob
    \/ BatchReturn

BatchSpec == BatchInit /\ [][BatchNext]_vars

----------------------------------------------------------------------------
\* upload_to_youtube in detail: the upload loop (UploadSpec)
\*
\* One upload invocation is followed from its event to its return.  The
\* media upload is created with chunksize -1, one request for the whole
\* file, so a call of next_chunk either answers the response or raises.

\* What one call of insert_request.next_chunk() meets: the response, an
\* HttpError with status 500, 502, 503 or 504, an HttpError with another
\* status, or an exception that is no HttpError.
ServiceAnswers == {"response", "server_error", "http_error", "exception"}

\* The loop's variables before its first turn.
LoopStart == [retry |-> 0, attempts |-> 0, response |-> FALSE, raised |-> FALSE, last |-> ""]

next_chunk_once_more(st, answer) ==
    LET tried == [st EXCEPT !.attempts = @ + 1, !.last = answer]
    IN  IF answer = "response" THEN [tried EXCEPT !.response = TRUE]
        ELSE IF answer = "server_error" /\ st.retry <= 3
        THEN [tried EXCEPT !.retry = @ + 1]
        ELSE [tried EXCEPT !.raised = TRUE]

\* One turn of "while response is None": the call of next_chunk and the
\* except branch.  A server error is retried while retry < 3, retry being
\* set to 0 before the loop only; every other error is raised.
next_chunk(st, answer) ==
    LET tried == [st EXCEPT !.attempts = @ + 1, !.last = answer]
    IN  IF answer = "response" THEN [tried EXCEPT !.response = TRUE]
        ELSE IF answer = "server_error" /\ st.retry < 3
        THEN [tried EXCEPT !.retry = @ + 1]
        ELSE [tried EXCEPT !.raised = TRUE]

\* The event of a Publisher invocation for the job, with the bucket and the
\* table as it finds them; credentials says the three credential settings
\* of the video host are set.
UploadInit ==
    /\ job \in [video_type : VideoTypes]
    /\ MEDIA_TABLE = TRUE
    /\ UPLOAD_TABLE \in BOOLEAN
    /\ item \in {NoItem,
                 complete_job(initialize_job(TRUE, NoItem, job.video_type, 0), 0)}
    /\ s3 \in SUBSET {SceneVideoKey(1), SceneVideoKey(2), FinalVideoKey}
    /\ now = 0
    /\ media = [pc |-> "done"]
    /\ \E credentials \in BOOLEAN :
         invs = <<NewInvocation("upload", job.video_type, item)
                    @@ [loop |-> LoopStart, credentials |-> credentials]>>
    /\ inflight = {}
    /\ invokeLog = <<>>
    /\ youtube = 0

\* upload_to_youtube up to the loop: without the credentials it raises
\* before any request.
UploadCredentials(k) ==
    /\ Running(k, "upload", "upload")
    /\ invs[k].loop.attempts = 0
    /\ ~invs[k].credentials
    /\ invs' = [invs EXCEPT ![k] =
                  [@ EXCEPT !.pc = "mark_failed", !.err = "upload failed",
                            !.loop.raised = TRUE]]
    /\ UNCHANGED <<job, MEDIA_TABLE, UPLOAD_TABLE, item, s3, now, media,
                   inflight, invokeLog, youtube>>

\* One turn of the upload loop.
UploadNextChunk(k) ==
    /\ Running(k, "upload", "upload")
    /\ invs[k].credentials
    /\ \E answer \in ServiceAnswers :
         LET st == next_chunk(invs[k].loop, answer)
         IN  /\ invs' = [invs EXCEPT ![k] =
                   IF st.response
                   THEN [@ EXCEPT !.loop = st, !.pc = "mark_complete",
                                  !.uploads = @ + 1]
                   ELSE IF st.raised
                   THEN [@ EXCEPT !.loop = st, !.pc = "mark_failed",
                                  !.err = "upload failed"]
                   ELSE [@ EXCEPT !.loop = st]]
             /\ youtube' = IF st.response THEN youtube + 1 ELSE youtube
    /\ UNCHANGED <<job, MEDIA_TABLE, UPLOAD_TABLE, item, s3, now, media,
                   inflight, invokeLog>>

UploadNext ==
    \/ Tick
    \/ UploadGetJobDetails(1)
    \/ UploadLocate(1)
    \/ UploadCredentials(1)
    \/ UploadNextChunk(1)
    \/ UploadMarkComplete(1)
    \/ UploadFail(1)

UploadSpec == UploadInit /\ [][UploadNext]_vars

----------------------------------------------------------------------------
\* Properties

Composers == {k \in 1..Len(invs) : invs[k].fn = "compose"}
Uploaders == {k \in 1..Len(invs) : invs[k].fn = "upload"}

\* The invocation has passed check_both_ready with the answer "ready".
PastCheck(k) ==
    invs[k].pc \in {"mark_in_progress", "compose", "mark_complete",
                    "mark_url", "mark_failed"}
    \/ (invs[k].pc = "done" /\ invs[k].body # "waiting"
        /\ invs[k].err # "AttributeError")

\* C1: composition begins only after the Compositor read
\* video_audio_status = complete in the same invocation: an invocation
\* that is about to write composition_status or to download fragments, or
\* has done so, read "complete" and wrote in_progress first, the item still
\* reads complete at each of its writes and downloads, and
\* composition_status leaves pending only through such an invocation.
C1_ComposeOnlyAfterComplete ==
    /\ \A k \in Composers :
         /\ PastCheck(k) => invs[k].seen = "complete"
         /\ (invs[k].writes # <<>> \/ invs[k].naudio + invs[k].nvideo > 0)
               => /\ invs[k].seen = "complete"
                  /\ invs[k].writes # <<>>
                  /\ invs[k].writes[1] = <<"composition_status", "in_progress">>
         /\ invs[k].pc \in {"mark_in_progress", "compose", "mark_complete",
                            "mark_url", "mark_failed"}
               => item.video_audio_status = "complete"
    /\ item.composition_status \in {"in_progress", "complete", "failed"}
          => \E k \in Composers : /\ invs[k].seen = "complete"
                                  /\ invs[k].writes # <<>>

\* Witness of C1: an invocation read complete and composition is in progress.
C1_Witness ==
    \E k \in Composers :
        /\ invs[k].seen = "complete"
        /\ invs[k].pc = "compose"
        /\ item.composition_status = "in_progress"

\* C2: an invocation whose read of the item does not show
\* video_audio_status = complete (the status is something else, the item is
\* missing, or the read failed) returns 200 "waiting" in that step and
\* changes neither the item (expires_at included) nor the bucket, and has
\* downloaded and uploaded nothing.
C2_NotReadyIsNoOp ==
    [][\A k \in 1..Len(invs) :
          (/\ invs[k].fn = "compose"
           /\ invs[k].pc = "start"
           /\ invs'[k].pc # "start"
           /\ (item.video_audio_status # "complete"
               \/ invs'[k].seen = "unread"))
          => /\ invs'[k].pc = "done"
             /\ invs'[k].statusCode = 200
             /\ invs'[k].body = "waiting"
             /\ invs'[k].writes = <<>>
             /\ invs'[k].uploads = 0
             /\ invs'[k].naudio + invs'[k].nvideo = 0
             /\ item' = item
             /\ s3' = s3]_vars

\* Witness of C2: the three not-ready cases have each returned "waiting".
C2_Witness ==
    /\ Len(invs) = 2
    /\ invs[1].fn = "compose" /\ invs[1].body = "waiting"
    /\ invs[1].seen = "pending"
    /\ invs[2].fn = "compose" /\ invs[2].body = "waiting"
    /\ invs[2].seen = "unread"
    /\ item.video_audio_status = "complete"

\* C3 as claimed: of the Compositor invocations of a job, at most one
\* composes and uploads a final video.
C3_AtMostOneComposition ==
    Cardinality({k \in Composers : invs[k].uploads > 0}) <= 1

\* C4 as claimed: an upload invocation that arrived when upload_status
\* already read complete uploads nothing to the video host and leaves
\* upload_status, youtube_video_id and youtube_url as they are.
C4_CompleteUploadIsNoOp ==
    [][\A k \in 1..Len(invs) :
          (/\ invs[k].fn = "upload"
           /\ invs[k].arrived = "complete"
           /\ invs'[k] # invs[k])
          => /\ youtube' = youtube
             /\ item'.upload_status = item.upload_status
             /\ item'.youtube_video_id = item.youtube_video_id
             /\ item'.youtube_url = item.youtube_url]_vars

\* The item allows the upload of its job's video.
UploadAllowed(it) ==
    /\ it.exists
    /\ \/ it.video_type = "regular" /\ it.composition_status = "complete"
       \/ it.video_type = "short" /\ it.video_audio_status = "complete"

\* C5 as claimed: a video is inserted at the video host only while the item
\* shows composition_status = complete (regular) or video_audio_status =
\* complete (short).
C5_UploadOnlyWhenAllowed ==
    [][youtube' # youtube => UploadAllowed(item)]_vars

\* The invocation trigger_next_step is to issue for a video type.
NextStage(video_type) ==
    IF video_type = "short" THEN Event("upload", "short")
    ELSE Event("compose", "")

\* trigger_next_step has run: complete_job calls it after its update,
\* which needs the table name.
Triggered == media.pc = "done" /\ MEDIA_TABLE

C7_PublisherInvokedAfterComposition ==
    \A k \in Composers :
        (invs[k].pc = "done" /\ invs[k].body = "composed")
        => \E i \in 1..Len(invokeLog) : invokeLog[i].target = "upload"

\* The attributes an invocation wrote, as a set.
Written(inv) == {inv.writes[i] : i \in 1..Len(inv.writes)}

\* The invocation returned through the handler's except branch: its last
\* write was composition_status = failed and it answered 500.
ReturnedFailed(inv) ==
    /\ inv.statusCode = 500
    /\ inv.writes # <<>>
    /\ inv.writes[Len(inv.writes)] = <<"composition_status", "failed">>

\* C8: when a mux or the concatenation of a composition exits non-zero or
\* leaves no output file, the invocation uploads no final video, writes
\* neither composition_status = complete nor final_video_url, goes to the
\* except branch and returns 500 with composition_status = failed in the
\* item; its steps leave the bucket alone and issue no invocation.
C8_EncoderFaultFailsJob ==
    [][\A k \in 1..Len(invs) :
          (invs[k].fn = "compose" /\ invs'[k].fault)
          => /\ invs'[k].pc \in {"mark_failed", "done"}
             /\ invs'[k].uploads = 0
             /\ invs'[k].err \in {"FFmpeg failed", "FFmpeg concat failed"}
             /\ <<"composition_status", "complete">> \notin Written(invs'[k])
             /\ <<"final_video_url", "final-videos">> \notin Written(invs'[k])
             /\ invs'[k] # invs[k]
                   => /\ s3' = s3
                      /\ invokeLog' = invokeLog
                      /\ inflight' = inflight
             /\ (invs[k].pc = "mark_failed" /\ invs'[k].pc = "done")
                   => /\ ReturnedFailed(invs'[k])
                      /\ item'.composition_status = "failed"
                      /\ item'.final_video_url = item.final_video_url]_vars

\* Witness of C8: one composition failed in a mux and another in the
\* concatenation, and both have returned.
C8_Witness ==
    /\ Len(invs) = 2
    /\ invs[1].fault /\ invs[1].pc = "done" /\ invs[1].err = "FFmpeg failed"
    /\ invs[2].fault /\ invs[2].pc = "done"
    /\ invs[2].err = "FFmpeg concat failed"
    /\ item.composition_status = "failed"
    /\ FinalVideoKey \notin s3

\* C9 as claimed: a stage invocation of a created job that ended in an
\* error has written failed to its stage's status: video_audio_status for
\* the media stage, composition_status for the Compositor, upload_status
\* for the Publisher.
C9_ErrorWritesFailed ==
    /\ (media.pc = "error" /\ MEDIA_TABLE)
          => item.video_audio_status = "failed"
    /\ \A k \in Composers :
          (invs[k].pc = "done" /\ invs[k].statusCode = 500)
          => <<"composition_status", "failed">> \in Written(invs[k])
    /\ \A k \in Uploaders :
          (invs[k].pc = "done" /\ invs[k].statusCode = 500 /\ UPLOAD_TABLE)
          => <<"upload_status", "failed">> \in Written(invs[k])

\* The invocation has run compose_media.
Composed(inv) ==
    /\ inv.fn = "compose"
    /\ inv.pc \in {"mark_complete", "mark_url", "mark_failed", "done"}
    /\ inv.seen = "complete"

\* C10 as claimed: a composition that found different numbers of audio
\* and video fragments raised the scene-count-mismatch error before any
\* mux, uploaded nothing and ended with composition_status = failed.
C10_MismatchError ==
    \A k \in 1..Len(invs) :
        (Composed(invs[k]) /\ invs[k].naudio # invs[k].nvideo)
        => /\ invs[k].err = "Mismatch"
           /\ invs[k].muxes = 0
           /\ invs[k].uploads = 0
           /\ invs[k].pc \in {"mark_failed", "done"}
           /\ invs[k].pc = "done" => ReturnedFailed(invs[k])

\* C10, amended: a composition that found different numbers of audio and
\* video fragments raised an error before any mux or concatenation (the
\* scene-count mismatch when both lists are non-empty, "Missing audio or
\* video files" when one of them is empty), uploaded nothing, left the
\* bucket alone and returned 500 with composition_status = failed in the
\* item; the lists are not cut to the shorter length.
C10_UnequalCountsFail ==
    [][\A k \in 1..Len(invs) :
          (Composed(invs'[k]) /\ invs'[k].naudio # invs'[k].nvideo)
          => /\ invs'[k].err = IF invs'[k].naudio = 0 \/ invs'[k].nvideo = 0
                               THEN "Missing" ELSE "Mismatch"
             /\ invs'[k].muxes = 0
             /\ invs'[k].concats = 0
             /\ invs'[k].uploads = 0
             /\ invs'[k].pc \in {"mark_failed", "done"}
             /\ invs'[k] # invs[k] => s3' = s3
             /\ (invs[k].pc = "mark_failed" /\ invs'[k].pc = "done")
                   => /\ ReturnedFailed(invs'[k])
                      /\ item'.composition_status = "failed"]_vars

\* Witness of C10: a composition found one audio and two video fragments
\* and returned with the mismatch error.
C10_Witness ==
    \E k \in Composers :
        /\ invs[k].pc = "done"
        /\ invs[k].naudio = 1
        /\ invs[k].nvideo = 2
        /\ invs[k].err = "Mismatch"
        /\ item.composition_status = "failed"

----------------------------------------------------------------------------
\* Properties of the media stage (MediaSpec)

\* The text is empty or whitespace only.
Blank(text) ==
    /\ text # None
    /\ \A c \in 1..Len(text) : text[c] = " "

\* The audio task of position i has ended in this step.
AudioTaskEnds(i) ==
    /\ media.pc = "gather"
    /\ i \in 1..Len(media.audio)
    /\ media.audio[i] = Pending
    /\ media'.audio[i] # Pending

\* C11: an audio result is skipped exactly when the scene's voiceover text
\* is empty or whitespace only; the task of such a scene submits no
\* inference request, stores no object and is not reported failed, in the
\* task's step and in the lists generate_media returns.
C11_SkippedIffBlank ==
    [][/\ \A i \in 1..Len(media'.audio) :
            media'.audio[i] # Pending
            => /\ media'.audio[i].status = "skipped"
                    <=> Blank(media'.scenes[i].voiceover)
               /\ Blank(media'.scenes[i].voiceover)
                    => /\ media'.audio_calls[i] = 0
                       /\ media'.audio[i].status # "failed"
       /\ \A i \in 1..MaxScenes :
            (AudioTaskEnds(i) /\ Blank(media.scenes[i].voiceover))
            => s3' = s3]_vars

\* Witness of C11: generate_media has returned a skipped result for a
\* whitespace-only voiceover and one that is not skipped for a text with
\* leading whitespace.
C11_Witness ==
    /\ media.pc = "done"
    /\ Len(media.audio) = 2
    /\ media.scenes[1].voiceover = <<" ">>
    /\ media.audio[1].status = "skipped"
    /\ media.scenes[2].voiceover = <<" ", "a">>
    /\ media.audio[2].status = "success"

\* generate_media has returned its two lists.
Returned == media.pc \in {"complete", "trigger", "done"}

\* C12 as claimed: the video list and the audio list generate_media
\* returns have len(scenes) entries each.
C12_BothListsFullLength ==
    Returned => /\ Len(media.video) = Len(media.scenes)
                /\ Len(media.audio) = Len(media.scenes)

\* C12, amended: the video list generate_media returns has len(scenes)
\* entries, whatever the tasks' outcomes; the audio list has len(scenes)
\* entries for a regular job and is empty for a short; every entry is a
\* result dictionary, none an exception.
C12_ListLengths ==
    Returned =>
        /\ Len(media.video) = Len(media.scenes)
        /\ Len(media.audio) = IF job.video_type = "short" THEN 0
                              ELSE Len(media.scenes)
        /\ \A i \in 1..Len(media.video) :
              ~media.video[i].raised /\ media.video[i] # Pending
        /\ \A i \in 1..Len(media.audio) :
              ~media.audio[i].raised /\ media.audio[i] # Pending

\* Witness of C12: every task of a regular two-scene job raised, and both
\* lists have two entries.
C12_Witness ==
    /\ Returned
    /\ job.video_type = "regular"
    /\ Len(media.scenes) = 2
    /\ Len(media.video) = 2
    /\ Len(media.audio) = 2
    /\ \A i \in 1..2 : /\ media.video[i].error = "Exception"
                       /\ media.audio[i].error = "TypeError"

\* The result describes the scene at position i of the script's array.
Describes(result, i) ==
    /\ result.scene_index = i - 1
    /\ result.scene_number = Get(job.response.scenes[i].scene_number, i)
    /\ result.scene_number = media.scenes[i].scene_number

\* C13: in the lists generate_media returns, entry i describes input
\* scene i (scene_index i, counted from 0, and the scene's scene_number,
\* or its position counted from 1 when it has none), in whatever order
\* the tasks ended and whether the task returned or raised; so does every
\* dictionary a task has returned while others still run.
C13_ResultsAligned ==
    /\ Returned =>
         /\ \A i \in 1..Len(media.video) : Describes(media.video[i], i)
         /\ \A i \in 1..Len(media.audio) : Describes(media.audio[i], i)
    /\ media.pc = "gather" =>
         /\ \A i \in 1..Len(media.video) :
              (media.video[i] # Pending /\ ~media.video[i].raised)
              => Describes(media.video[i], i)
         /\ \A i \in 1..Len(media.audio) :
              (media.audio[i] # Pending /\ ~media.audio[i].raised)
              => Describes(media.audio[i], i)

\* Witness of C13: the scenes are numbered 2, 1 in the script, the first
\* scene's audio task raised, and the lists were returned.
C13_Witness ==
    /\ Returned
    /\ Len(media.scenes) = 2
    /\ job.response.scenes[1].scene_number = <<2>>
    /\ job.response.scenes[2].scene_number = <<1>>
    /\ Len(media.audio) = 2
    /\ media.audio[1].error = "TypeError"
    /\ media.audio[1].scene_number = 2
    /\ media.video[2].scene_number = 1
    /\ media.video[2].scene_index = 1

\* C14: for a short, whatever the number of scenes, the media stage
\* creates no audio task, submits no audio inference request and stores
\* no object under generated-audio/.
C14_ShortHasNoAudio ==
    job.video_type = "short" =>
        /\ media.audio = <<>>
        /\ \A i \in 1..Len(media.audio_calls) : media.audio_calls[i] = 0
        /\ \A k \in s3 : k.folder # "generated-audio"

\* Witness of C14: a short of two scenes with voiceover text went through
\* the media stage and both videos are stored.
C14_Witness ==
    /\ job.video_type = "short"
    /\ media.pc = "done"
    /\ Len(media.scenes) = 2
    /\ \A i \in 1..2 : /\ media.scenes[i].voiceover = <<" ", "a">>
                       /\ media.video[i].status = "success"
                       /\ media.video_calls[i] = 1

\* Every task of the list has reached a terminal outcome.
AllEnded(tasks) == \A i \in 1..Len(tasks) : tasks[i] # Pending

\* C15: generate_media returns only when every video and audio task it
\* launched has ended, so video_audio_status = complete is written and
\* the next stage invoked only then; while it waits, a task that ends
\* (failed or not) changes no other task's entry, and every task still
\* running can end whatever its siblings did.
C15_Barrier ==
    [][/\ (media.pc = "gather" /\ media'.pc # "gather")
            => AllEnded(media.video) /\ AllEnded(media.audio)
       /\ (item'.video_audio_status = "complete" \/ invokeLog' # <<>>)
            => /\ Returned'
               /\ AllEnded(media'.video) /\ AllEnded(media'.audio)
       /\ (media.pc = "gather" /\ media'.pc = "gather")
            => /\ \A i \in 1..Len(media.video) :
                     media.video[i] # Pending
                     => media'.video[i] = media.video[i]
               /\ \A i \in 1..Len(media.audio) :
                     media.audio[i] # Pending
                     => media'.audio[i] = media.audio[i]
               /\ \A i \in 1..Len(media'.video) :
                     media'.video[i] = Pending => ENABLED VideoTask(i)
               /\ \A i \in 1..Len(media'.audio) :
                     media'.audio[i] = Pending => ENABLED AudioTask(i)]_vars

\* Witness of C15: the first video task failed, the video task and the
\* audio task of the second scene succeeded after it, and the media stage
\* completed and invoked the next stage.
C15_Witness ==
    /\ media.pc = "done"
    /\ Len(media.video) = 2
    /\ Len(media.audio) = 2
    /\ media.video[1].status = "failed"
    /\ media.video[2].status = "success"
    /\ media.audio[2].status = "success"
    /\ item.video_audio_status = "complete"
    /\ invokeLog # <<>>

\* The list after is the list before with each exception replaced by a
\* failed result carrying the exception's message.
Absorbed(before, after) ==
    /\ Len(after) = Len(before)
    /\ \A i \in 1..Len(before) :
          IF before[i].raised
          THEN /\ ~after[i].raised
               /\ after[i].status = "failed"
               /\ after[i].error = before[i].error
               /\ after[i].error # ""
          ELSE after[i] = before[i]

\* C16: an exception of a per-scene task never leaves generate_media: the
\* wait ends only by returning the lists, in which each task that raised
\* is a failed result with the exception's message as its error and every
\* other result is as the task returned it; an exception caught inside
\* the task is a failed result with its message as well.
C16_ExceptionsAbsorbed ==
    [][/\ media.pc = "gather" => media'.pc \in {"gather", "complete"}
       /\ (media.pc = "gather" /\ media'.pc = "complete")
            => /\ Absorbed(media.video, media'.video)
               /\ Absorbed(media.audio, media'.audio)
       /\ Returned'
            => /\ \A i \in 1..Len(media'.video) : ~media'.video[i].raised
               /\ \A i \in 1..Len(media'.audio) : ~media'.audio[i].raised
       /\ \A i \in 1..Len(media'.video) :
            media'.video[i].error # "" => media'.video[i].status = "failed"
       /\ \A i \in 1..Len(media'.audio) :
            (media'.audio[i].error # "" /\ ~media'.audio[i].raised)
            => media'.audio[i].status = "failed"]_vars

\* Witness of C16: the first scene's audio task raised, its video task
\* caught an exception, the second scene's tasks succeeded, and
\* generate_media returned.
C16_Witness ==
    /\ Returned
    /\ Len(media.audio) = 2
    /\ media.audio[1].status = "failed"
    /\ media.audio[1].error = "TypeError"
    /\ media.video[1].status = "failed"
    /\ media.video[1].error = "Exception"
    /\ media.audio[2].status = "success"
    /\ media.video[2].status = "success"

\* C17 as claimed: without the inference credential the media stage
\* never writes video_audio_status = complete and invokes no next stage,
\* and when it ends the item's video_audio_status reads failed.
C17_MissingKeyFailsJob ==
    ~job.FAL_KEY =>
        /\ item.video_audio_status # "complete"
        /\ invokeLog = <<>>
        /\ (media.pc = "done" /\ MEDIA_TABLE)
              => item.video_audio_status = "failed"

\* The script parsed and has a scenes array of at least one element.
ValidScript ==
    /\ job.response.json
    /\ job.response.has_scenes
    /\ Len(job.response.scenes) >= 1

\* C18: for a script with a scenes array of N >= 1 elements,
\* extract_scenes succeeds and returns N records in array order: record i
\* has scene i's voiceover, scene i's scene_number when it has one and i
\* (counted from 1) when it has none, and the script's
\* master_prompt_context.
C18_ExtractPreservesScenes ==
    (ValidScript /\ media.pc # "received") =>
        LET raw == job.response.scenes
        IN  /\ media.pc # "rejected"
            /\ Len(media.scenes) = Len(raw)
            /\ \A i \in 1..Len(raw) :
                  /\ media.scenes[i].voiceover = raw[i].voiceover
                  /\ media.scenes[i].scene_number =
                        IF raw[i].scene_number = <<>> THEN i
                        ELSE raw[i].scene_number[1]
                  /\ media.scenes[i].master_prompt_context
                        = job.response.master

\* Witness of C18: a script whose scenes are numbered 2, 1 was extracted
\* in that order.
C18_Witness ==
    /\ ValidScript
    /\ media.pc = "start"
    /\ Len(media.scenes) = 2
    /\ job.response.scenes[1].scene_number = <<2>>
    /\ job.response.scenes[2].scene_number = <<1>>
    /\ job.response.scenes[1].voiceover # job.response.scenes[2].voiceover
    /\ media.scenes[1].scene_number = 2
    /\ media.scenes[2].scene_number = 1

\* C19: a response that is not JSON or has no "scenes" key makes
\* extract_scenes raise: no scene record is made up, and the request
\* ends before an item is written, a task created, an inference request
\* submitted, an object stored or a next stage invoked.
C19_MalformedScriptRejected ==
    (~job.response.json \/ ~job.response.has_scenes) =>
        /\ ~extract_scenes(job.response).ok
        /\ media.pc \in {"received", "rejected"}
        /\ media.scenes = <<>>
        /\ media.video = <<>> /\ media.audio = <<>>
        /\ media.video_calls = <<>> /\ media.audio_calls = <<>>
        /\ item = NoItem
        /\ s3 = {}
        /\ invokeLog = <<>>
        /\ inflight = {}

\* Witness of C19: a JSON response without the "scenes" key was rejected
\* with the table configured.
C19_Witness ==
    /\ job.response.json
    /\ ~job.response.has_scenes
    /\ MEDIA_TABLE
    /\ media.pc = "rejected"

\* C20 as claimed: every fragment stored is at its kind's folder under a
\* name scene_NN made of a scene's number only, and two different scenes
\* of the job never have the same key: the fragments stored for two
\* scenes are two objects.
C20_ScenesHaveOwnKeys ==
    media.pc \in {"gather", "complete", "trigger", "done"} =>
        /\ \A k \in s3 :
              k.folder \in {"generated-videos", "generated-audio"}
              => /\ k.stem = "scene"
                 /\ \E i \in 1..Len(media.scenes) :
                       k.number = media.scenes[i].scene_number
        /\ \A i, j \in 1..Len(media.video) :
              (/\ i # j
               /\ media.video[i].status = "success"
               /\ media.video[j].status = "success")
              => SceneVideoKey(media.video[i].scene_number)
                    # SceneVideoKey(media.video[j].scene_number)
        /\ \A i, j \in 1..Len(media.audio) :
              (/\ i # j
               /\ media.audio[i].status = "success"
               /\ media.audio[j].status = "success")
              => SceneAudioKey(media.audio[i].scene_number)
                    # SceneAudioKey(media.audio[j].scene_number)

----------------------------------------------------------------------------
\* Properties of the published metadata (PublishSpec)

\* The event carries a response object that supplies key.
Supplied(key) == key \in job.response.keys

\* The upload invocation has inserted the video.
Published == invs[1].pc = "done" /\ invs[1].statusCode = 200

\* The response object has been laid over the job details.
Overridden == invs[1].pc = "upload" \/ Published

\* The texts of the published metadata.
PublishedTexts ==
    {invs[1].metadata.title, invs[1].metadata.description.text,
     invs[1].metadata.description.hashtags}
    \cup {invs[1].metadata.tags[i] : i \in 1..Len(invs[1].metadata.tags)}

\* C21 as stated: each of title, summary, hashtags and topic that the
\* event's response object supplies (with a value that is not empty) is the
\* value the video is published with: the title within the host's limit,
\* the summary as the description's text, the hashtags as tags, the topic
\* as one of the published texts.
C21_EventValuePublished ==
    Published =>
        /\ Supplied("title") /\ job.response.title # <<>> =>
              invs[1].metadata.title = TitleWithinLimit(job.response.title)
        /\ Supplied("summary") /\ job.response.summary # <<>> =>
              invs[1].metadata.description.text = job.response.summary
        /\ Supplied("hashtags") /\ Truthy(job.response.hashtags) =>
              invs[1].metadata.tags = HashtagTags(job.response.hashtags)
        /\ Supplied("topic") /\ job.response.topic # <<>> =>
              job.response.topic \in PublishedTexts

\* C21, amended: each of title, summary, hashtags and topic that the
\* event's response object supplies replaces the stored value in the job
\* details, and stored values stay only for fields the event does not
\* supply.  A supplied title, summary or hashtags value that is not empty is
\* published (the title within the host's limit, the hashtags as tags); a
\* supplied empty value gives the generated default, never the stored
\* value; the topic is no part of the published metadata.
C21_EventOverridesStored ==
    LET r == job.response
        d == invs[1].job_details
        m == invs[1].metadata
    IN  /\ Overridden =>
            /\ Supplied("title") => d.video_title = r.title
            /\ Supplied("summary") => d.video_summary = r.summary
            /\ Supplied("hashtags") => d.video_hashtags = r.hashtags
            /\ Supplied("topic") => d.video_topic = r.topic
            /\ ~Supplied("title") /\ ~Supplied("video_title") =>
                  d.video_title = item.video_title
            /\ ~Supplied("summary") /\ ~Supplied("description") =>
                  d.video_summary = item.video_summary
            /\ ~Supplied("hashtags") /\ ~Supplied("tags") =>
                  d.video_hashtags = HashtagText(item.video_hashtags)
            /\ ~Supplied("topic") => d.video_topic = item.video_topic
        /\ Published =>
            /\ Supplied("title") =>
                  m.title = IF r.title # <<>> THEN TitleWithinLimit(r.title)
                            ELSE GeneratedTitle(job.video_type,
                                                item.original_prompt)
            /\ Supplied("summary") /\ r.summary # <<>> =>
                  m.description.text = r.summary
            /\ Supplied("summary") /\ r.summary = <<>> =>
                  m.description.hashtags = DefaultHashtags
            /\ Supplied("hashtags") =>
                  m.tags = IF Truthy(r.hashtags) THEN HashtagTags(r.hashtags)
                           ELSE DefaultTags(job.video_type)
            /\ m = prepare_video_metadata([d EXCEPT !.video_topic = <<>>],
                                          job.video_type)

\* An event title over a stored title, both set and different, and a topic
\* supplied: the video is published.
C21_Witness ==
    /\ Published
    /\ Supplied("title") /\ job.response.title = <<"e">>
    /\ item.video_title = <<"S">>
    /\ Supplied("topic") /\ job.response.topic = <<"t">>
    /\ item.video_topic = <<"T">>
    /\ Supplied("hashtags") /\ Truthy(job.response.hashtags)
    /\ item.video_hashtags # <<>>

----------------------------------------------------------------------------
\* Properties of the handlers' invocations, continued (Spec)

\* The invocation is over: its handler returned, or an exception left it.
Ended(inv) == inv.pc \in {"done", "raised"}

\* C22: every invocation of a stage handler ends by returning a structured
\* payload, whatever the event and whatever failed: no exception leaves
\* lambda_handler, and the statusCode is 200, 400 or 500.
C22_StructuredPayloadAlways ==
    \A k \in 1..Len(invs) :
        Ended(invs[k]) => /\ invs[k].pc = "done"
                          /\ invs[k].statusCode \in {200, 400, 500}

\* C23: for a short job of several scenes whose video fragments are all
\* stored and whose upload the media stage has invoked, the video the
\* upload publishes is never one raw scene fragment of the media stage.
C23_ShortPublishedIsComposed ==
    \A k \in Uploaders :
        (/\ job.video_type = "short"
         /\ invs[k].video_type = "short"
         /\ Len(job.scenes) > 1
         /\ \A i \in 1..Len(job.scenes) : SceneVideoKey(i) \in s3
         /\ invokeLog # <<>>
         /\ invs[k].uploads > 0)
        => ~(/\ invs[k].video_s3_key.folder = "generated-videos"
             /\ invs[k].video_s3_key.stem = "scene")

\* C25: composition_status is terminal once it reads complete or failed:
\* no step writes it again, so it never returns to in_progress.
C25_TerminalStatusKept ==
    [][item.composition_status \in {"complete", "failed"}
          => item'.composition_status = item.composition_status]_vars

\* C26: every mux of a composition combines the audio fragment and the
\* video fragment of one scene_number.
C26_PairsOfOneScene ==
    \A k \in Composers :
        \A i \in 1..Len(invs[k].pairs) :
            extract_scene_number(invs[k].pairs[i].audio)
                = extract_scene_number(invs[k].pairs[i].video)

\* C30: when a composition invocation has returned, with success or with
\* a failure, none of the temp-disk files it created remain.
C30_NoTempFilesRemain ==
    \A k \in Composers : invs[k].pc = "done" => invs[k].tmp = {}

----------------------------------------------------------------------------
\* Properties of one composition (ComposeSpec)

\* The invocation's compose_media returned the final video's url.
ComposeSucceeded(inv) ==
    \/ inv.pc \in {"mark_complete", "mark_url"}
    \/ (inv.pc = "done" /\ inv.body = "composed")

\* C24: deleting per-scene clips during the loop loses nothing: a
\* composition of N >= 2 scenes that succeeds has a final video made of all
\* N clips of the manifest (each was on temp disk when the concatenation
\* read it).
C24_FinalHoldsEveryScene ==
    \A k \in Composers :
        (ComposeSucceeded(invs[k]) /\ invs[k].naudio >= 2)
        => /\ Len(invs[k].final) = invs[k].naudio
           /\ \A i \in 1..Len(invs[k].manifest) :
                 invs[k].final[i].out = invs[k].manifest[i]

\* C27: with exactly one audio and one video fragment the composition
\* runs one mux, whose output is the final video's path, and no
\* concatenation; no manifest and no per-scene clip is written.
C27_SingleSceneDirect ==
    \A k \in Composers :
        (invs[k].naudio = 1 /\ invs[k].nvideo = 1)
        => /\ invs[k].muxes = 1
           /\ invs[k].concats = 0
           /\ invs[k].manifest = <<>>
           /\ Len(invs[k].pairs) = 1
           /\ invs[k].pairs[1].out = FinalVideo
           /\ ConcatList \notin invs[k].tmp
           /\ \A f \in invs[k].tmp : f.file # "composed_scene"
           /\ ComposeSucceeded(invs[k]) => invs[k].final = invs[k].pairs

\* One audio and one video fragment, beside a file without scene number:
\* the composition has returned 200.
C27_Witness ==
    \E k \in Composers :
        /\ invs[k].naudio = 1 /\ invs[k].nvideo = 1
        /\ S3Key("generated-videos", "thumbnail", 0, "jpg") \in s3
        /\ invs[k].pc = "done" /\ invs[k].statusCode = 200
        /\ invs[k].muxes = 1

\* C28: with N >= 2 scenes, unless a mux fails, the composition runs N
\* muxes, one per scene, then one concatenation, and the manifest lists
\* the N per-scene clips composed_scene_00 .. composed_scene_<N-1>, clip i
\* being the mux of the i-th scene in ascending scene_number order; no
\* clip is missing or repeated.
C28_MuxEachThenConcatOnce ==
    \A k \in Composers :
        LET inv == invs[k]
            n == inv.naudio
        IN  (n >= 2 /\ inv.nvideo = n)
            => /\ inv.concats <= 1
               /\ inv.muxes = Len(inv.pairs)
               /\ inv.concats = 0 => inv.fault /\ inv.muxes <= n
               /\ inv.concats = 1 =>
                    /\ inv.muxes = n
                    /\ inv.manifest = [i \in 1..n |-> ComposedScene(i - 1)]
                    /\ \A i \in 1..n : inv.pairs[i].out = inv.manifest[i]
                    /\ \A i, j \in 1..n :
                         i < j =>
                           /\ extract_scene_number(inv.pairs[i].video)
                                < extract_scene_number(inv.pairs[j].video)
                           /\ extract_scene_number(inv.pairs[i].audio)
                                <= extract_scene_number(inv.pairs[j].audio)
                           /\ inv.pairs[i].audio # inv.pairs[j].audio

\* Three scenes were muxed and the concatenation has run.
C28_Witness ==
    \E k \in Composers :
        /\ invs[k].naudio = 3 /\ invs[k].nvideo = 3
        /\ invs[k].muxes = 3
        /\ invs[k].concats = 1
        /\ Len(invs[k].manifest) = 3

----------------------------------------------------------------------------
\* Inference requests and stored fragments (MediaSpec)

\* The results of the tasks that ended with a dictionary.
Ended35(results) ==
    {i \in 1..Len(results) : results[i] # Pending /\ ~results[i].raised}

\* The task's API call got a terminal result without a url.
NoUrl(result) ==
    /\ result.api_result # <<>>
    /\ result.api_result[1].error = "No URL in response"

\* C35: in one run of the media stage no scene has more than one video
\* request and more than one audio request submitted for it; a task whose
\* request ended in a result without a url reports status failed, carries
\* the raw result as the details of its API result, and has submitted that
\* one request only.
C35_OneSubmissionPerScene ==
    /\ \A i \in 1..Len(media.video_calls) : media.video_calls[i] <= 1
    /\ \A i \in 1..Len(media.audio_calls) : media.audio_calls[i] <= 1
    /\ \A i \in Ended35(media.video) :
          NoUrl(media.video[i]) =>
             /\ media.video[i].status = "failed"
             /\ media.video[i].api_result[1].details = <<"result">>
             /\ media.video_calls[i] = 1
    /\ \A i \in Ended35(media.audio) :
          NoUrl(media.audio[i]) =>
             /\ media.audio[i].status = "failed"
             /\ media.audio[i].api_result[1].details = <<"result">>
             /\ media.audio_calls[i] = 1

\* A regular job is through the media stage; the video and the audio
\* request of its first scene both ended without a url.
C35_Witness ==
    /\ media.pc = "done"
    /\ job.video_type = "regular"
    /\ Len(media.video) >= 1
    /\ Len(media.audio) >= 1
    /\ 1 \in Ended35(media.video)
    /\ 1 \in Ended35(media.audio)
    /\ NoUrl(media.video[1])
    /\ NoUrl(media.audio[1])
    /\ media.video_calls[1] = 1
    /\ media.audio_calls[1] = 1

\* The download or the storage write of the task's fragment failed, or the
\* bucket name is not set: the inference service had answered a url.
NotStored(result) ==
    /\ result.api_result # <<>>
    /\ result.api_result[1].error \in {"download_failed", "put_failed", "S3_BUCKET not configured"}

\* C36: a Fragment Result with status success has its object in the bucket
\* under the key of its kind and scene number; a task whose download or
\* storage write failed, or that found no bucket name, reports failed, and
\* without the bucket name no result is a success.
C36_SuccessMeansStored ==
    /\ \A i \in Ended35(media.video) :
          /\ media.video[i].status = "success"
                => SceneVideoKey(media.video[i].scene_number) \in s3
          /\ NotStored(media.video[i]) => media.video[i].status = "failed"
          /\ ~job.S3_BUCKET => media.video[i].status # "success"
    /\ \A i \in Ended35(media.audio) :
          /\ media.audio[i].status = "success"
                => SceneAudioKey(media.audio[i].scene_number) \in s3
          /\ NotStored(media.audio[i]) => media.audio[i].status = "failed"
          /\ ~job.S3_BUCKET => media.audio[i].status # "success"

\* Two video tasks of one job: the first stored its fragment, the storage
\* write of the second failed after the service had answered a url.
C36_Witness ==
    /\ media.pc = "done"
    /\ job.S3_BUCKET
    /\ Len(media.video) = 2
    /\ media.video[1].status = "success"
    /\ SceneVideoKey(media.video[1].scene_number) \in s3
    /\ NotStored(media.video[2])
    /\ media.video[2].api_result[1].error = "put_failed"
    /\ media.video[2].status = "failed"
    /\ SceneVideoKey(media.video[2].scene_number) \notin s3

\* C39: when an upload invocation for a regular job looks for its video
\* while composition_status is complete and the Compositor's final video is
\* in the bucket, it finds that object and goes on to upload it; it does
\* not end with 'no composed video found'.
C39_PublisherFindsFinalVideo ==
    [][ \A k \in 1..Len(invs) :
          (/\ Running(k, "upload", "locate")
           /\ invs'[k] # invs[k]
           /\ job.video_type = "regular"
           /\ invs[k].video_type = "regular"
           /\ item.composition_status = "complete"
           /\ FinalVideoKey \in s3)
          => /\ invs'[k].pc = "upload"
             /\ invs'[k].video_s3_key = FinalVideoKey
             /\ invs'[k].err # "no composed video" ]_vars

----------------------------------------------------------------------------
\* The end of the media stage (MediaSpec)

\* Every task of the job ended without a stored fragment.
AllFragmentsFailed ==
    /\ media.video # <<>>
    /\ \A i \in 1..Len(media.video) : media.video[i].status = "failed"
    /\ \A i \in 1..Len(media.audio) : media.audio[i].status \in {"failed", "skipped"}

C38_TriggerOnlyAfterWrite ==
    /\ [](/\ invokeLog # <<>> =>
                /\ MEDIA_TABLE
                /\ media.updated
                /\ item.video_audio_status = "complete"
          /\ (media.pc = "done" /\ (~MEDIA_TABLE \/ ~media.updated)) =>
                /\ invokeLog = <<>>
                /\ inflight = {})
    /\ [][ invokeLog' # invokeLog =>
              /\ media.updated
              /\ item.video_audio_status = "complete" ]_vars

\* The status update of a job with the table name set raised: the item is
\* still pending and the stage ended without an invocation.
C38_Witness ==
    /\ media.pc = "done"
    /\ MEDIA_TABLE
    /\ ~media.updated
    /\ item.video_audio_status = "pending"
    /\ \E i \in 1..Len(media.video) : media.video[i].status = "success"
    /\ invokeLog = <<>>

----------------------------------------------------------------------------
\* Field ownership in the coordination item (Spec)

\* The attributes a step changes.
Changed == {f \in DOMAIN item : item'[f] # item[f]}

\* initialize_job's put_item: the creation of the record.
Creation == media.pc = "start" /\ media'.pc # "start"

MediaStep == media' # media
ComposerStep == \E k \in DOMAIN invs : invs[k].fn = "compose" /\ k \in DOMAIN invs' /\ invs'[k] # invs[k]
UploaderStep == \E k \in DOMAIN invs : invs[k].fn = "upload" /\ k \in DOMAIN invs' /\ invs'[k] # invs[k]

MediaFields == {"video_audio_status", "expires_at", "exists"}
ComposerFields == {"composition_status", "final_video_url", "expires_at", "exists"}
UploaderFields == {"upload_status", "youtube_video_id", "youtube_url", "expires_at", "exists"}

\* C31: after the record is created, a step of the media stage changes only
\* video_audio_status and expires_at, a step of the Compositor only
\* composition_status, final_video_url and expires_at, a step of the
\* Publisher only upload_status, the video's id and url and expires_at; no
\* other step changes the item, so every attribute an update does not name
\* keeps its value.
C31_StagesWriteOwnFields ==
    [][ (~Creation /\ Changed # {}) =>
            \/ MediaStep /\ Changed \subseteq MediaFields
            \/ ComposerStep /\ Changed \subseteq ComposerFields
            \/ UploaderStep /\ Changed \subseteq UploaderFields ]_vars

\* All three stages have written the record.
C31_Witness ==
    /\ item.video_audio_status = "complete"
    /\ item.composition_status = "complete"
    /\ item.final_video_url # ""
    /\ item.upload_status # ""

\* The retention window of the stage that takes the step, in seconds.
Retention == IF UploaderStep THEN 30 * 24 * 60 * 60 ELSE 7 * 24 * 60 * 60

\* C32: every step that writes the coordination item (creation, media
\* completion, a composition status write, an upload status write) leaves
\* expires_at at the time of the write plus the writer's retention window,
\* which is later than the time of the write.
C32_ExpiryRefreshedOnWrite ==
    [][ item' # item =>
            /\ item'.expires_at = now + Retention
            /\ item'.expires_at > now ]_vars

\* The media stage completed a record at time 1 that it created at time 0,
\* and the Publisher then wrote it.
C32_Witness ==
    /\ now = 1
    /\ item.video_audio_status = "complete"
    /\ item.upload_status # ""
    /\ item.expires_at = 1 + 30 * 24 * 60 * 60

----------------------------------------------------------------------------
\* The handler's batch (BatchSpec)

\* The message lacks one of prompt, role, response and type.
MissingField(message) ==
    ~(message.prompt /\ message.role /\ message.has_response /\ message.type # "")

\* The message passes every test of process_media_request.
WellFormed(message) ==
    /\ message.json
    /\ ~MissingField(message)
    /\ message.response.has_scenes
    /\ message.response.master

\* The step handles a record whose message lacks a required field.
RejectingStep ==
    /\ media.pc = "record"
    /\ media.idx < Len(job)
    /\ MissingField(job[media.idx + 1])

\* C33: the step that handles a message without prompt, role, response or
\* type writes no item, submits no inference request, stores nothing and
\* invokes no function; it counts the record as failed and moves to the
\* next record, and when the handler has returned every record has its
\* outcome: failed for a message without a required field, processed for
\* a well-formed one, whatever came before it in the batch.
C33_MissingFieldRejectedFirst ==
    /\ [][ RejectingStep =>
             /\ UNCHANGED <<item, s3, invokeLog, inflight>>
             /\ media'.created = media.created
             /\ media'.calls = media.calls
             /\ media'.failed = media.failed + 1
             /\ media'.processed = media.processed
             /\ media'.idx = media.idx + 1
             /\ media'.pc = "record" ]_vars
    /\ [](media.pc = "returned" =>
             /\ Len(media.outcomes) = Len(job)
             /\ \A i \in 1..Len(job) :
                  /\ MissingField(job[i]) => media.outcomes[i] = "failed"
                  /\ WellFormed(job[i]) => media.outcomes[i] = "processed")

\* A batch whose first message lacks a field and whose second is well
\* formed: after the return one is failed, the other processed with its
\* item written, a request submitted and the next stage invoked.
C33_Witness ==
    /\ media.pc = "returned"
    /\ Len(job) = 2
    /\ MissingField(job[1])
    /\ WellFormed(job[2])
    /\ media.outcomes = <<"failed", "processed">>
    /\ media.created = 1
    /\ media.calls > 0
    /\ invokeLog # <<>>

\* The number of records with the outcome.
Count(outcome) ==
    Cardinality({i \in 1..Len(media.outcomes) : media.outcomes[i] = outcome})

\* C34: the media handler counts every record once: while it runs,
\* processed + failed is the number of records handled, processed the
\* number for which process_media_request returned and failed the number
\* for which it raised; it returns statusCode 200 with processed + failed
\* equal to the number of records.
C34_EveryRecordCountedOnce ==
    /\ media.processed = Count("processed")
    /\ media.failed = Count("failed")
    /\ media.processed + media.failed = media.idx
    /\ media.pc = "returned" =>
          /\ media.statusCode = 200
          /\ media.processed + media.failed = Len(job)

\* A batch of two has returned with one record of each outcome.
C34_Witness ==
    /\ media.pc = "returned"
    /\ media.statusCode = 200
    /\ Len(job) = 2
    /\ media.processed = 1
    /\ media.failed = 1
    /\ ~MissingField(job[1])
    /\ ~MissingField(job[2])

----------------------------------------------------------------------------
\* The upload loop (UploadSpec)

\* The invocation has returned.
HandlerReturned(inv) == inv.pc = "done"

\* The handler can take a step.
HandlerCanStep ==
    ENABLED (\/ UploadGetJobDetails(1) \/ UploadLocate(1)
             \/ UploadCredentials(1) \/ UploadNextChunk(1)
             \/ UploadMarkComplete(1) \/ UploadFail(1))

\* C40: the upload loop ends.  It calls next_chunk at most 4 times and
\* retries at most 3 times, the retry count never going down; it goes on
\* after an error only when that was a server error with fewer than 3
\* retries before it, and leaves with the error at the fourth server error
\* and at the first error of any other kind; an invocation whose upload
\* raised returns statusCode 500 with upload_status written failed; and no
\* state short of the handler's return is without a next step.
C40_UploadLoopTerminates ==
    /\ [](\A k \in Uploaders :
            LET inv == invs[k]
                loop == inv.loop
            IN  /\ loop.retry <= 3
                /\ loop.attempts <= 4
                /\ (inv.pc = "upload" /\ loop.attempts > 0) =>
                      /\ loop.last = "server_error"
                      /\ loop.retry = loop.attempts
                /\ (loop.raised /\ loop.last = "server_error") =>
                      /\ loop.retry = 3
                      /\ loop.attempts = 4
                /\ loop.last \in {"http_error", "exception"} =>
                      /\ loop.raised
                      /\ loop.attempts = loop.retry + 1
                /\ loop.raised => inv.pc \in {"mark_failed", "done"}
                /\ (loop.raised /\ HandlerReturned(inv)) =>
                      /\ inv.statusCode = 500
                      /\ item.upload_status = "failed"
                      /\ <<"upload_status", "failed">> \in Written(inv)
                /\ HandlerReturned(inv) \/ HandlerCanStep)
    /\ [][\A k \in Uploaders :
            /\ invs'[k].loop.retry >= invs[k].loop.retry
            /\ invs'[k].loop.attempts >= invs[k].loop.attempts]_vars

\* The upload met four server errors: three retries, then the error left
\* the loop and the handler answered 500 with upload_status failed.
C40_Witness ==
    /\ Len(invs) = 1
    /\ HandlerReturned(invs[1])
    /\ invs[1].loop.last = "server_error"
    /\ invs[1].loop.retry = 3
    /\ invs[1].loop.attempts = 4
    /\ invs[1].loop.raised
    /\ invs[1].statusCode = 500
    /\ item.upload_status = "failed"

====
